---- MODULE Spec2Model ----
(***************************************************************************)
(* State-machine model of the PDF OCR pipeline:                            *)
(*   src/src/pdf_analyzer.py   PDFAnalyzer                                 *)
(*   src/src/ocr_processor.py  OCRProcessor  (three-tier fallback chain)   *)
(*   src/src/pdf_processor.py  PDFProcessor  (per-file decision, batch)    *)
(*   src/src/utils.py          create_backup, generate_output_filename     *)
(*   src/gui/main_window.py    PDFOCRApp     (workers, processing_active)  *)
(*   src/gui/progress_dialog.py ProgressDialog (cancel flag)               *)
(*                                                                         *)
(* The filesystem, the PDF library and the OCR backend are the             *)
(* environment: a document's properties come from a fixed catalogue, the   *)
(* backend's outcome of each strategy is chosen nondeterministically.      *)
(* The three logs record the percentages handed to the progress callback   *)
(* of process_pdf, of process_file and of process_batch; a callback is     *)
(* always supplied and does not raise.                                     *)
(***************************************************************************)
EXTENDS Integers, Sequences, FiniteSets, TLC

VARIABLES
    files,          \* filesystem: existing path -> content
    create_backups, \* PDFProcessor.create_backups (constructor argument)
    stats,          \* PDFProcessor.stats
    clock,          \* wall clock read by datetime.now()
    work,           \* number of documents submitted so far (bounds the run)
    batch,          \* frame of the running/last process_batch
    file,           \* frame of the running/last process_file
    pdf,            \* frame of the running/last process_pdf
    logs,           \* percentages delivered to the progress callbacks
    probe,          \* a direct call of the analyzer: its document and result
    gui,            \* background worker, caller and presentation layer
    runs,           \* two runs of one PDFProcessor that overlap in time
    fallback        \* a direct call of the page-wise fallback: scenario, outcome

vars == <<files, create_backups, stats, clock, work, batch, file, pdf, logs, probe, gui,
          runs, fallback>>

-----------------------------------------------------------------------------
(* Bounds *)

\* budget of one behaviour: a document of a batch costs 1, a direct call of
\* process_file or process_pdf costs 2 (a direct call has more variants)
MaxWork == 2

\* a document handed to the analyzer directly has up to MaxRun pages of one
\* kind followed by up to MaxRun pages of another kind
MaxRun == 6

\* a document handed to the page-wise fallback directly has up to MaxPages
\* pages
MaxPages == 5

-----------------------------------------------------------------------------
(* Program constants *)

min_text_length == 50
PagesToCheck == 5
\* analyze_pages: max_pages, and the text length above which a page counts
max_pages == 10
MeaningfulPageLength == 20
\* _get_recommendation: the coverage thresholds
HighCoverage == 80
PartialCoverage == 50

-----------------------------------------------------------------------------
(* Documents known to the environment *)

DocNames == {"missing", "bad", "text", "scan", "enc", "locked"}

\* the files given to batches: without force_ocr a batch treats "locked" as
\* it treats "text" (a copy), so batches take one of the two
BatchNames == DocNames \ {"locked"}

\* two more files, handed to process_file directly only: "notes" is a readable
\* one-page document whose name does not end in .pdf, "empty" a PDF that
\* opens and has no page
OtherNames == {"notes", "empty"}

\* the text of a page, as page.get_text() returns it: `lead` whitespace
\* characters, then `alnum` alphanumeric characters, then `punct` other
\* characters, then `trail` whitespace characters
PageText(lead, alnum, punct, trail) ==
    [lead |-> lead, alnum |-> alnum, punct |-> punct, trail |-> trail]

\* a page of n alphanumeric characters
Plain(n) == PageText(0, n, 0, 0)

\* exists: the file is on disk; valid: fitz can open it and it has pages;
\* pages: the text of each page; enc: "none", "empty" (the empty password
\* unlocks it) or "locked"; size: bytes on disk
DocTable ==
    [d \in DocNames \cup OtherNames |->
        CASE d = "missing" -> [exists |-> FALSE, valid |-> FALSE, pages |-> << >>,     enc |-> "none",   size |-> 0]
          [] d = "bad"     -> [exists |-> TRUE,  valid |-> FALSE, pages |-> << >>,     enc |-> "none",   size |-> 1]
          [] d = "text"    -> [exists |-> TRUE,  valid |-> TRUE,  pages |-> <<Plain(60)>>,  enc |-> "none",   size |-> 3]
          [] d = "scan"    -> [exists |-> TRUE,  valid |-> TRUE,  pages |-> <<Plain(0), Plain(0)>>,  enc |-> "none",   size |-> 5]
          [] d = "enc"     -> [exists |-> TRUE,  valid |-> TRUE,  pages |-> <<Plain(0)>>,  enc |-> "empty",  size |-> 4]
          [] d = "locked"  -> [exists |-> TRUE,  valid |-> TRUE,  pages |-> <<Plain(70)>>,  enc |-> "locked", size |-> 2]
          [] d = "notes"   -> [exists |-> TRUE,  valid |-> TRUE,  pages |-> <<Plain(60)>>,  enc |-> "none",   size |-> 1]
          [] d = "empty"   -> [exists |-> TRUE,  valid |-> TRUE,  pages |-> << >>,     enc |-> "none",   size |-> 1]]

\* the document behind a name: one of the catalogue, or the one handed to
\* the analyzer directly
DocOf(d) == IF d = "probe" THEN probe.doc ELSE DocTable[d]

-----------------------------------------------------------------------------
(* Paths and file contents *)

NoPath == [kind |-> "none", doc |-> "", n |-> 0]
InPath(d) == [kind |-> "in", doc |-> d, n |-> 0]
OutPath(d, k) == [kind |-> "out", doc |-> d, n |-> k]
BackupPath(d, t) == [kind |-> "bak", doc |-> d, n |-> t]
TempPath(d) == [kind |-> "tmp", doc |-> d, n |-> 0]
TempDir(k) == [kind |-> "tmpdir", doc |-> "", n |-> k]

\* content of a file: the document it derives from, how it was produced
\* and (for the page-wise fallback) which pages it holds
Content(d, form, pages) == [doc |-> d, form |-> form, pages |-> pages]
Original(d) == Content(d, "orig", << >>)

Exists(fs, p) == p \in DOMAIN fs
WriteFile(fs, p, c) == [q \in (DOMAIN fs) \cup {p} |-> IF q = p THEN c ELSE fs[q]]
Unlink(fs, p) == [q \in (DOMAIN fs) \ {p} |-> fs[q]]

\* os.path.getsize / stat().st_size
GetSize(fs, p) ==
    LET c == fs[p] IN
    IF c.form \in {"orig", "dec"} THEN DocOf(c.doc).size
    ELSE IF c.form = "pages" THEN Len(c.pages)
    ELSE DocOf(c.doc).size + 1

InitFiles ==
    [p \in {InPath(d) : d \in {x \in DocNames \cup OtherNames : DocTable[x].exists}}
        |-> Original(p.doc)]

-----------------------------------------------------------------------------
(* Generic helpers *)

Max(a, b) == IF a >= b THEN a ELSE b
Min(a, b) == IF a <= b THEN a ELSE b

\* Python's int(): truncation toward zero of a / b, b > 0
TruncDiv(a, b) == IF a >= 0 THEN a \div b ELSE -((-a) \div b)

RECURSIVE SumSeq(_)
SumSeq(s) == IF s = << >> THEN 0 ELSE Head(s) + SumSeq(Tail(s))

Last(s) == s[Len(s)]

-----------------------------------------------------------------------------
(* pdf_analyzer.py *)

None == "None"      \* a key that the dictionary does not hold (strings)
NoValue == -1       \* a key that the dictionary does not hold (numbers)

Doc(fs, p) == DocOf(fs[p].doc)

\* (mutation of validate_pdf: every file that exists is accepted)
validate_pdf_ExistsOnly(fs, p) ==
    IF ~Exists(fs, p) THEN [ok |-> FALSE, msg |-> "El archivo no existe"]
    ELSE [ok |-> TRUE, msg |-> "PDF valido"]

\* pdf_path.lower().endswith('.pdf')
HasPdfExtension(p) == p.doc # "notes"

\* PDFAnalyzer.validate_pdf: (is_valid, message)
validate_pdf(fs, p) ==
    IF ~Exists(fs, p) THEN [ok |-> FALSE, msg |-> "El archivo no existe"]
    ELSE IF ~HasPdfExtension(p)
         THEN [ok |-> FALSE, msg |-> "El archivo no tiene extension .pdf"]
    ELSE IF ~Doc(fs, p).valid THEN [ok |-> FALSE, msg |-> "Error al validar PDF"]
    ELSE IF Len(Doc(fs, p).pages) = 0
         THEN [ok |-> FALSE, msg |-> "El PDF no contiene paginas"]
    ELSE [ok |-> TRUE, msg |-> "PDF valido"]

\* whitespace at the start of the concatenated texts once the characters
\* that are neither alphanumeric nor whitespace are dropped
RECURSIVE LeadingSpace(_)
LeadingSpace(pg) ==
    IF pg = << >> THEN 0
    ELSE IF Head(pg).alnum > 0 THEN Head(pg).lead
    ELSE Head(pg).lead + Head(pg).trail + LeadingSpace(Tail(pg))

\* the same at the end
RECURSIVE TrailingSpace(_)
TrailingSpace(pg) ==
    IF pg = << >> THEN 0
    ELSE IF Last(pg).alnum > 0 THEN Last(pg).trail
    ELSE Last(pg).lead + Last(pg).trail + TrailingSpace(SubSeq(pg, 1, Len(pg) - 1))

\* len(meaningful_text.strip()) for total_text the concatenation of the
\* texts of pg (has_embedded_text, lines 100-109)
MeaningfulLength(pg) ==
    LET kept == SumSeq([k \in 1..Len(pg) |-> pg[k].lead + pg[k].alnum + pg[k].trail])
    IN IF SumSeq([k \in 1..Len(pg) |-> pg[k].alnum]) = 0 THEN 0
       ELSE kept - LeadingSpace(pg) - TrailingSpace(pg)

\* (mutation of has_embedded_text: every page is read)
has_embedded_text_AllPages(fs, p) ==
    IF ~Doc(fs, p).valid THEN [has_text |-> FALSE, pages |-> 0]
    ELSE LET pg == Doc(fs, p).pages
         IN [has_text |-> MeaningfulLength(pg) > min_text_length, pages |-> Len(pg)]

\* PDFAnalyzer.has_embedded_text: (has_text, total_pages); (False, 0) when
\* the document cannot be opened
has_embedded_text(fs, p) ==
    IF ~Doc(fs, p).valid THEN [has_text |-> FALSE, pages |-> 0]
    ELSE LET pg == Doc(fs, p).pages
             pages_to_check == Min(PagesToCheck, Len(pg))
             total_text == SubSeq(pg, 1, pages_to_check)
         IN [has_text |-> MeaningfulLength(total_text) > min_text_length,
             pages |-> Len(pg)]

\* len(text.strip()) of one page (analyze_pages, lines 171-172)
text_length(page) == IF page.alnum + page.punct = 0 THEN 0 ELSE page.alnum + page.punct

\* (mutation of analyze_pages: every page is analysed)
analyze_pages_AllPages(fs, p) ==
    IF ~Doc(fs, p).valid THEN << >>
    ELSE LET pg == Doc(fs, p).pages
         IN [k \in 1..Len(pg) |->
                [page_number |-> k, text_length |-> text_length(pg[k]),
                 has_meaningful_text |-> text_length(pg[k]) > MeaningfulPageLength]]

\* PDFAnalyzer.analyze_pages: one entry for each of the first max_pages
\* pages; [] when the document cannot be opened
analyze_pages(fs, p) ==
    IF ~Doc(fs, p).valid THEN << >>
    ELSE LET pg == Doc(fs, p).pages
             pages_to_analyze == Min(max_pages, Len(pg))
         IN [k \in 1..pages_to_analyze |->
                [page_number |-> k, text_length |-> text_length(pg[k]),
                 has_meaningful_text |-> text_length(pg[k]) > MeaningfulPageLength]]

\* a percentage kept as the exact fraction num / den
Percent(num, den) == [num |-> num, den |-> den]
Above(pct, threshold) == pct.num > threshold * pct.den

\* PDFAnalyzer._calculate_text_coverage: (pages_with_text / len) * 100
calculate_text_coverage(page_analysis) ==
    IF page_analysis = << >> THEN Percent(0, 1)
    ELSE LET pages_with_text ==
                 Cardinality({k \in 1..Len(page_analysis) :
                                 page_analysis[k].has_meaningful_text})
         IN Percent(100 * pages_with_text, Len(page_analysis))

\* PDFAnalyzer._get_recommendation
get_recommendation(has_text, page_analysis) ==
    IF has_text
    THEN LET text_coverage == calculate_text_coverage(page_analysis) IN
         IF Above(text_coverage, HighCoverage)
         THEN "El PDF ya tiene texto embebido. No necesita OCR."
         ELSE IF Above(text_coverage, PartialCoverage)
         THEN "El PDF tiene texto parcial. Considera OCR para completar."
         ELSE "El PDF tiene poco texto. Se recomienda OCR."
    ELSE "PDF escaneado detectado. Se requiere OCR para hacerlo buscable."

NoAnalysis ==
    [success |-> FALSE, error |-> None, file_path |-> NoPath, file_size |-> NoValue,
     page_count |-> NoValue, has_embedded_text |-> FALSE, processing_needed |-> FALSE,
     text_coverage |-> Percent(NoValue, 1), recommendation |-> None]

\* PDFAnalyzer.analyze_pdf
analyze_pdf(fs, p) ==
    IF ~Exists(fs, p)
    THEN [NoAnalysis EXCEPT !.error = "Archivo no encontrado"]
    ELSE LET t == has_embedded_text(fs, p)
             page_analysis == analyze_pages(fs, p)
         IN [success |-> TRUE, error |-> None, file_path |-> p,
             file_size |-> GetSize(fs, p), page_count |-> t.pages,
             has_embedded_text |-> t.has_text,
             text_coverage |-> calculate_text_coverage(page_analysis),
             recommendation |-> get_recommendation(t.has_text, page_analysis),
             processing_needed |-> ~t.has_text]

\* PDFProcessor.analyze_file
analyze_file(fs, p) ==
    LET v == validate_pdf(fs, p) IN
    IF ~v.ok THEN [NoAnalysis EXCEPT !.error = v.msg, !.file_path = p]
    ELSE analyze_pdf(fs, p)

-----------------------------------------------------------------------------
(* utils.py *)

\* (mutation of UniqueName: the candidate name is returned without looking
\* whether a file of that name exists)
UniqueName_NoProbe(fs, d, counter) == OutPath(d, counter)

\* generate_output_filename: <stem>_processed.pdf, then _1, _2, ... until free
RECURSIVE UniqueName(_, _, _)
UniqueName(fs, d, counter) ==
    IF Exists(fs, OutPath(d, counter)) THEN UniqueName(fs, d, counter + 1)
    ELSE OutPath(d, counter)

generate_output_filename(fs, p) == UniqueName(fs, p.doc, 0)

\* create_backup: the backup path, or NoPath (None) when it failed: the file
\* is missing, or making the directory or shutil.copy2 raised (ok = FALSE,
\* lines 55-57); the name carries the timestamp
create_backup_path(fs, p, now, ok) ==
    IF ~Exists(fs, p) \/ ~ok THEN NoPath ELSE BackupPath(p.doc, now)

\* (mutation of create_backup_files: the path is returned, nothing is copied)
create_backup_files_NoCopy(fs, p, now, ok) == fs

create_backup_files(fs, p, now, ok) ==
    IF ~Exists(fs, p) \/ ~ok THEN fs ELSE WriteFile(fs, BackupPath(p.doc, now), fs[p])

-----------------------------------------------------------------------------
(* Frames, results and the initial state *)

\* error_causes: the strategies whose own exception message the error text
\* carries
NoPdfResult ==
    [success |-> FALSE, error |-> None, error_causes |-> {},
     input_path |-> NoPath, output_path |-> NoPath,
     input_size |-> NoValue, output_size |-> NoValue]

IdlePdf ==
    [pc |-> "idle", caller |-> "none", input |-> NoPath, output |-> NoPath,
     temp_input |-> NoPath, attempts |-> << >>, result |-> NoPdfResult]

NoFileResult ==
    [success |-> FALSE, error |-> None, input_path |-> NoPath, file_path |-> NoPath,
     output_path |-> NoPath, processing_type |-> None,
     input_size |-> NoValue, output_size |-> NoValue, backup_path |-> NoPath,
     analysis |-> NoAnalysis,
     processing_start |-> NoValue, processing_end |-> NoValue,
     processing_duration |-> NoValue]

\* backup_ok: whether the copy made by create_backup succeeds in this call
IdleFile ==
    [pc |-> "idle", owner |-> "none", input |-> NoPath, force_ocr |-> FALSE,
     backup_ok |-> TRUE, result |-> NoFileResult]

ZeroStats ==
    [files_processed |-> 0, files_with_ocr |-> 0, files_copied |-> 0,
     total_size_processed |-> 0, errors |-> 0,
     start_time |-> NoValue, end_time |-> NoValue]

\* (mutation of get_stats: the rate is taken over the processed files only)
get_stats_RateOverProcessed(st) ==
    [counters |-> st,
     shared |-> FALSE,
     total_duration |-> IF st.start_time # NoValue /\ st.end_time # NoValue
                        THEN st.end_time - st.start_time ELSE NoValue,
     success_rate |-> [num |-> st.files_processed * 100,
                       den |-> Max(st.files_processed, 1)]]

\* (mutation of get_stats: the dictionary of the processor itself is returned)
get_stats_NoCopy(st) ==
    [counters |-> st,
     shared |-> TRUE,
     total_duration |-> IF st.start_time # NoValue /\ st.end_time # NoValue
                        THEN st.end_time - st.start_time ELSE NoValue,
     success_rate |-> [num |-> st.files_processed * 100,
                       den |-> Max(st.files_processed + st.errors, 1)]]

\* PDFProcessor.get_stats: a copy of the counters plus the derived values;
\* shared tells whether the returned dictionary is the object self.stats
\* itself (it is self.stats.copy(), whose values are immutable);
\* success_rate is kept as the exact fraction num / den (a percentage)
get_stats(st) ==
    [counters |-> st,
     shared |-> FALSE,
     total_duration |-> IF st.start_time # NoValue /\ st.end_time # NoValue
                        THEN st.end_time - st.start_time ELSE NoValue,
     success_rate |-> [num |-> st.files_processed * 100,
                       den |-> Max(st.files_processed + st.errors, 1)]]

\* snapshot: the dictionary the caller got from its last get_stats() call;
\* snapshot_state: "none", "held", or "edited" once the caller wrote into it
IdleBatch ==
    [pc |-> "idle", paths |-> << >>, i |-> 0, results |-> << >>,
     fresh |-> FALSE, completions |-> << >>,
     snapshot |-> get_stats(ZeroStats), snapshot_state |-> "none"]

NoLogs == [pdf |-> << >>, file |-> << >>, batch |-> << >>]

\* no direct call of the analyzer
NoProbe == [pc |-> "none", doc |-> DocTable["missing"], result |-> NoAnalysis]

\* worker: the operation the background thread was started for ("none",
\* "batch", "pdf", "analyze", "word"); thread: "none", "started" or "finished";
\* caller: "idle", or "returned" once the asynchronous call gave the thread
\* back; completions: the results handed to process_pdf_async's completion
\* callback; canceled_at: how many files of the batch were finished or in
\* flight when ProgressDialog.canceled was set; selected, analyzed: the
\* files chosen in the window and their analyses; touched: which thread
\* updated which part of the presentation state; ran: the callbacks the
\* main loop has run; processing_active: PDFOCRApp.processing_active;
\* dialog: the modal dialog that is open ("none", "results" of the analysis
\* or "converted" of the Word conversion); pending: the
\* callbacks the analysis and the conversion workers handed to the main loop
\* and that have not run yet; overlap: a worker was started while another
\* one was running; refused: process_files, called from the results dialog,
\* returned at its processing_active check
NoGui ==
    [worker |-> "none", thread |-> "none", caller |-> "idle",
     completions |-> << >>, canceled_at |-> NoValue,
     selected |-> << >>, analyzed |-> << >>, touched |-> {}, ran |-> {},
     processing_active |-> FALSE, dialog |-> "none", pending |-> {},
     overlap |-> FALSE, refused |-> FALSE]

\* no overlapping runs: the processor is used by one caller at a time
NoRuns == [run |-> << >>, overlapped |-> FALSE]

\* no direct call of the page-wise fallback; of a call: the scenario the
\* environment chose and whether the fallback returned True
NoFallback ==
    [pc |-> "none", scenario |-> [fail |-> "none", page |-> 0, okPages |-> {}],
     ok |-> FALSE]

Init ==
    /\ files = InitFiles
    /\ create_backups \in BOOLEAN
    /\ stats = ZeroStats
    /\ clock = 0
    /\ work = 0
    /\ batch = IdleBatch
    /\ file = IdleFile
    /\ pdf = IdlePdf
    /\ logs = NoLogs
    /\ probe = NoProbe
    /\ gui = NoGui
    /\ runs = NoRuns
    /\ fallback = NoFallback

-----------------------------------------------------------------------------
(* Progress callbacks *)

\* process_batch.file_progress: int(i * file_weight + percent * file_weight / 100)
\* with file_weight = 100 / total_files
combined_progress(i, total_files, percent) == TruncDiv(100 * i + percent, total_files)

\* what the batch's callback receives for the percentages vs of the file in
\* flight: the combined value, with the percentage it was computed from
CombineAll(vs) ==
    [k \in 1..Len(vs) |->
        [value |-> combined_progress(batch.i, Len(batch.paths), vs[k]),
         from |-> "file", percent |-> vs[k]]]

\* a value process_batch itself hands to its callback
OwnReport(v) == [value |-> v, from |-> "batch", percent |-> v]

\* percentages vs handed to the callback given to process_file by `owner`
FileEmit(lg, owner, vs) ==
    [lg EXCEPT !.file = @ \o vs,
               !.batch = IF owner = "batch" THEN @ \o CombineAll(vs) ELSE @]

\* percentages vs handed to the callback given to process_pdf
PdfEmit(lg, vs) ==
    IF pdf.caller = "file"
    THEN [FileEmit(lg, file.owner, vs) EXCEPT !.pdf = @ \o vs]
    ELSE [lg EXCEPT !.pdf = @ \o vs]

-----------------------------------------------------------------------------
(* ocr_processor.py: OCRProcessor.process_pdf and its strategies *)

\* what one call of the OCR backend (ocrmypdf.ocr) can do: write the output
\* and return, return without an output file, or raise
BackendOutcomes == {"ok", "noout", "fail"}

ocrmypdf_ocr(fs, input, output, outcome, form) ==
    IF outcome = "ok" THEN WriteFile(fs, output, Content(fs[input].doc, form, << >>))
    ELSE fs

\* (mutation of handle_encrypted_pdf: a document the empty password does not
\* unlock is handed on as a temporary copy all the same)
handle_encrypted_pdf_AlwaysCopy(fs, input) ==
    IF ~Doc(fs, input).valid \/ Doc(fs, input).enc = "none"
    THEN [path |-> input, files |-> fs, emits |-> <<5>>]
    ELSE [path |-> TempPath(input.doc),
          files |-> WriteFile(fs, TempPath(input.doc), Content(input.doc, "dec", << >>)),
          emits |-> <<5, 7>>]

\* OCRProcessor._handle_encrypted_pdf: the path to work on, the filesystem
\* afterwards and the progress it reported. It never raises: every failure
\* (open fails, password needed) returns the original path.
handle_encrypted_pdf(fs, input) ==
    LET d == Doc(fs, input) IN
    IF ~d.valid \/ d.enc = "none"
    THEN [path |-> input, files |-> fs, emits |-> <<5>>]
    ELSE IF d.enc = "empty"
    THEN [path |-> TempPath(input.doc),
          files |-> WriteFile(fs, TempPath(input.doc), Content(input.doc, "dec", << >>)),
          emits |-> <<5, 7>>]
    ELSE [path |-> input, files |-> fs, emits |-> <<5, 7>>]

\* what can go wrong inside the page-wise fallback once the document is
\* open: rasterizing page `page` raises, or combining the pages raises;
\* okPages are the pages tesseract recognizes (when rasterizing page `page`
\* raises, pages before it may have been recognized)
SecondaryScenarios(n) ==
    [fail : {"none", "combine"}, page : {0}, okPages : SUBSET (1..n)]
    \cup UNION {[fail : {"raster"}, page : {p}, okPages : SUBSET (1..(p - 1))] :
                  p \in 1..n}

NextTempDir(fs) == TempDir(Cardinality({q \in DOMAIN fs : q.kind = "tmpdir"}) + 1)

\* progress reported before page k (1-based) of n: 45 + (page_num / n) * 40
PageProgress(k, n) == 45 + ((k - 1) * 40) \div n

\* (mutation of OcrResults: every page is taken, recognized or not)
OcrResults_EveryPage(k, n, okPages) == [j \in 1..(n - k + 1) |-> k + j - 1]

\* the recognized pages in page order (ocr_results)
RECURSIVE OcrResults(_, _, _)
OcrResults(k, n, okPages) ==
    IF k > n THEN << >>
    ELSE (IF k \in okPages THEN <<k>> ELSE << >>) \o OcrResults(k + 1, n, okPages)

\* OCRProcessor._tesseract_fallback_ocr (with _combine_pdfs)
tesseract_fallback_ocr(fs, input, output, sc) ==
    LET d == Doc(fs, input)
        n == Len(d.pages)
        tmp == NextTempDir(fs)
        withTmp == WriteFile(fs, tmp, Content(input.doc, "tmpdir", << >>))
        upto == IF sc.fail = "raster" THEN sc.page ELSE n
        pageEmits == [k \in 1..upto |-> PageProgress(k, n)]
        ocr_results == OcrResults(1, n, sc.okPages)
    IN
    IF ~d.valid
    THEN [ok |-> FALSE, files |-> fs, emits |-> <<45>>]
    ELSE IF sc.fail = "raster"
    THEN [ok |-> FALSE, files |-> withTmp, emits |-> <<45>> \o pageEmits]
    ELSE IF ocr_results = << >>
    THEN [ok |-> FALSE, files |-> withTmp, emits |-> <<45>> \o pageEmits \o <<85>>]
    ELSE IF sc.fail = "combine"
    THEN [ok |-> FALSE, files |-> withTmp, emits |-> <<45>> \o pageEmits \o <<85>>]
    ELSE [ok |-> TRUE,
          files |-> WriteFile(fs, output, Content(input.doc, "pages", ocr_results)),
          emits |-> <<45>> \o pageEmits \o <<85>>]

Attempt(strategy, ok) == [strategy |-> strategy, ok |-> ok]

\* process_pdf, lines 141-195: input check, encryption probe, configuration
PdfStart ==
    /\ pdf.pc = "start"
    /\ IF ~Exists(files, pdf.input)
       THEN /\ pdf' = [pdf EXCEPT !.pc = "done",
                          !.result = [NoPdfResult EXCEPT
                                         !.error = "Archivo de entrada no encontrado",
                                         !.input_path = pdf.input]]
            /\ UNCHANGED <<files, logs>>
       ELSE LET pr == handle_encrypted_pdf(files, pdf.input) IN
            /\ files' = pr.files
            /\ pdf' = [pdf EXCEPT !.pc = "primary", !.temp_input = pr.path]
            /\ logs' = PdfEmit(logs, <<0>> \o pr.emits \o <<10, 20>>)
    /\ UNCHANGED <<create_backups, stats, clock, work, batch, file>>
    /\ UNCHANGED <<probe, gui, runs, fallback>>

\* (mutation of AfterPrimary: a failed primary goes straight to the minimal
\* configuration)
AfterPrimary_SkipSecondary(outcome) == IF outcome = "fail" THEN "tertiary" ELSE "finalize"

\* where the chain goes after the primary strategy returned or raised
AfterPrimary(outcome) == IF outcome = "fail" THEN "secondary" ELSE "finalize"

\* process_pdf, lines 197-209: the primary strategy
PdfPrimary ==
    /\ pdf.pc = "primary"
    /\ \E outcome \in BackendOutcomes :
        /\ files' = ocrmypdf_ocr(files, pdf.temp_input, pdf.output, outcome, "ocr")
        /\ pdf' = [pdf EXCEPT !.pc = AfterPrimary(outcome),
                      !.attempts = Append(@, Attempt("primary", outcome # "fail"))]
        /\ logs' = IF outcome = "fail" THEN PdfEmit(logs, <<40>>) ELSE logs
    /\ UNCHANGED <<create_backups, stats, clock, work, batch, file>>
    /\ UNCHANGED <<probe, gui, runs, fallback>>

\* process_pdf, lines 211-222: the page-wise fallback
PdfSecondary ==
    /\ pdf.pc = "secondary"
    /\ \E sc \in SecondaryScenarios(Len(Doc(files, pdf.temp_input).pages)) :
        LET r == tesseract_fallback_ocr(files, pdf.temp_input, pdf.output, sc) IN
        /\ files' = r.files
        /\ pdf' = [pdf EXCEPT !.pc = IF r.ok THEN "finalize" ELSE "tertiary",
                      !.attempts = Append(@, Attempt("secondary", r.ok))]
        /\ logs' = PdfEmit(logs, IF r.ok THEN r.emits ELSE r.emits \o <<50>>)
    /\ UNCHANGED <<create_backups, stats, clock, work, batch, file>>
    /\ UNCHANGED <<probe, gui, runs, fallback>>

\* process_pdf, lines 224-244: the minimal configuration
PdfTertiary ==
    /\ pdf.pc = "tertiary"
    /\ \E outcome \in BackendOutcomes :
        /\ files' = ocrmypdf_ocr(files, pdf.temp_input, pdf.output, outcome, "min")
        /\ pdf' = [pdf EXCEPT !.pc = IF outcome = "fail" THEN "except" ELSE "finalize",
                      !.attempts = Append(@, Attempt("tertiary", outcome # "fail"))]
    /\ UNCHANGED <<create_backups, stats, clock, work, batch, file, logs>>
    /\ UNCHANGED <<probe, gui, runs, fallback>>

\* the cleanup of the temporary decrypted copy, lines 246-251
cleanup_temp(fs, input, temp_input) ==
    IF temp_input # input /\ Exists(fs, temp_input) THEN Unlink(fs, temp_input) ELSE fs

\* process_pdf, lines 246-286: cleanup, result check, return
PdfFinalize ==
    /\ pdf.pc = "finalize"
    /\ LET fs == cleanup_temp(files, pdf.input, pdf.temp_input) IN
        /\ files' = fs
        /\ IF Exists(fs, pdf.output)
           THEN /\ pdf' = [pdf EXCEPT !.pc = "done",
                              !.result = [success |-> TRUE, error |-> None,
                                          error_causes |-> {},
                                          input_path |-> pdf.input,
                                          output_path |-> pdf.output,
                                          input_size |-> GetSize(fs, pdf.input),
                                          output_size |-> GetSize(fs, pdf.output)]]
                /\ logs' = PdfEmit(logs, <<90, 100>>)
           ELSE /\ pdf' = [pdf EXCEPT !.pc = "done",
                              !.result = [NoPdfResult EXCEPT
                                             !.error = "El archivo de salida no se genero",
                                             !.input_path = pdf.input,
                                             !.output_path = pdf.output]]
                /\ logs' = PdfEmit(logs, <<90>>)
    /\ UNCHANGED <<create_backups, stats, clock, work, batch, file>>
    /\ UNCHANGED <<probe, gui, runs, fallback>>

\* (mutation of PdfExcept: the handler returns a result without a message)
PdfExcept_NoMessage ==
    /\ pdf.pc = "except"
    /\ pdf' = [pdf EXCEPT !.pc = "done",
                  !.result = [NoPdfResult EXCEPT !.input_path = pdf.input,
                                                 !.output_path = pdf.output]]
    /\ logs' = PdfEmit(logs, <<-1>>)
    /\ UNCHANGED <<files, create_backups, stats, clock, work, batch, file>>
    /\ UNCHANGED <<probe, gui, runs, fallback>>

\* process_pdf, lines 288-300: the handler of the exception raised at line
\* 244, Exception(f"Todos los metodos de OCR fallaron: {final_error}"): the
\* text carries the message of the tertiary strategy's exception only
PdfExcept ==
    /\ pdf.pc = "except"
    /\ pdf' = [pdf EXCEPT !.pc = "done",
                  !.result = [NoPdfResult EXCEPT
                                 !.error = "Error durante procesamiento: Todos los metodos de OCR fallaron",
                                 !.error_causes = {"tertiary"},
                                 !.input_path = pdf.input,
                                 !.output_path = pdf.output]]
    /\ logs' = PdfEmit(logs, <<-1>>)
    /\ UNCHANGED <<files, create_backups, stats, clock, work, batch, file>>
    /\ UNCHANGED <<probe, gui, runs, fallback>>

-----------------------------------------------------------------------------
(* pdf_processor.py: PDFProcessor.process_file *)

\* (mutation of copy2: the copy does not hold the bytes of the source)
copy2_Truncating(fs, src, dst) == WriteFile(fs, dst, Content(fs[src].doc, "partial", << >>))

\* shutil.copy2
copy2(fs, src, dst) == WriteFile(fs, dst, fs[src])

\* needs_ocr = not analysis['has_embedded_text'] or force_ocr
needs_ocr(analysis, force_ocr) == ~analysis.has_embedded_text \/ force_ocr

\* (mutation of CountResult: a failed file clears the count of processed files)
CountResult_ErrorClearsProcessed(st, res, analysis) ==
    IF res.success
    THEN [st EXCEPT !.files_processed = @ + 1,
                    !.total_size_processed = @ + analysis.file_size]
    ELSE [st EXCEPT !.errors = @ + 1, !.files_processed = 0]

\* (mutation of CountResult: a failed file still adds its size to the total)
CountResult_SizeOnFailure(st, res, analysis) ==
    IF res.success
    THEN [st EXCEPT !.files_processed = @ + 1,
                    !.total_size_processed = @ + analysis.file_size]
    ELSE [st EXCEPT !.errors = @ + 1,
                    !.total_size_processed = @ + Max(analysis.file_size, 0)]

\* (mutation of CountResult: a failed file is counted as processed as well)
CountResult_FailureCountsProcessed(st, res, analysis) ==
    IF res.success
    THEN [st EXCEPT !.files_processed = @ + 1,
                    !.total_size_processed = @ + analysis.file_size]
    ELSE [st EXCEPT !.errors = @ + 1, !.files_processed = @ + 1]

\* process_file, lines 214-230: end time, duration, statistics
\* (the success branch counts the file, the other one an error)
CountResult(st, res, analysis) ==
    IF res.success
    THEN [st EXCEPT !.files_processed = @ + 1,
                    !.total_size_processed = @ + analysis.file_size]
    ELSE [st EXCEPT !.errors = @ + 1]

FinishFile(res, st, now) ==
    [result |-> [res EXCEPT !.processing_end = now,
                            !.processing_duration = now - res.processing_start],
     stats |-> CountResult(st, res, res.analysis)]

\* (mutation of CopyFailed: the failure is recorded without its message)
CopyFailed_NoError(base) == [base EXCEPT !.success = FALSE]

\* the copy branch after a failed copy, lines 208-212
CopyFailed(base) == [base EXCEPT !.success = FALSE, !.error = "Error al copiar archivo"]

\* the copy branch after a successful copy, lines 196-201
CopyDone(base, fs, input, output) ==
    [base EXCEPT !.success = TRUE, !.processing_type = "copy_only",
                 !.input_size = GetSize(fs, input),
                 !.output_size = GetSize(fs, output)]

\* process_file from its entry up to the call of process_pdf (pc "ocr") or,
\* when no OCR is applied, up to its return (pc "done"); lines 114-212.
\* raises: an exception inside the try block that no inner handler catches
\* (here an OSError of output_path.exists() while the output path is
\* derived, e.g. no permission on the output directory), handled at lines
\* 232-243; copyOk: whether shutil.copy2 succeeds; backupOk: whether the
\* copy inside create_backup succeeds.
FileBegin(input, out, force_ocr, raises, copyOk, backupOk) ==
    LET output == IF out = NoPath THEN generate_output_filename(files, input) ELSE out
        analysis == analyze_file(files, input)
        do_backup == create_backups /\ ~force_ocr
        backup_path == IF do_backup THEN create_backup_path(files, input, clock, backupOk)
                       ELSE NoPath
        fs1 == IF do_backup THEN create_backup_files(files, input, clock, backupOk)
               ELSE files
        t0 == IF do_backup THEN clock + 1 ELSE clock
        base == [NoFileResult EXCEPT !.input_path = input, !.output_path = output,
                                     !.analysis = analysis, !.backup_path = backup_path,
                                     !.processing_start = t0]
    IN
    IF ~Exists(files, input)
    THEN [pc |-> "done", files |-> files, stats |-> stats, clock |-> clock,
          emits |-> <<0>>,
          result |-> [NoFileResult EXCEPT !.error = "Archivo no encontrado",
                                          !.input_path = input]]
    ELSE IF raises
    THEN [pc |-> "done", files |-> files, clock |-> clock,
          stats |-> [stats EXCEPT !.errors = @ + 1],
          emits |-> <<0, -1>>,
          result |-> [NoFileResult EXCEPT !.error = "Error inesperado",
                                          !.input_path = input]]
    ELSE IF ~analysis.success
    THEN [pc |-> "done", files |-> files, stats |-> stats, clock |-> clock,
          emits |-> <<0, 10>>,
          result |-> [NoFileResult EXCEPT !.error = analysis.error,
                                          !.file_path = analysis.file_path]]
    ELSE IF needs_ocr(analysis, force_ocr)
    THEN [pc |-> "ocr", files |-> fs1, stats |-> stats, clock |-> t0 + 1,
          emits |-> <<0, 10, 20, 30>>, result |-> base]
    ELSE IF copyOk
    THEN LET fs2 == copy2(fs1, input, output)
             fin == FinishFile(CopyDone(base, fs2, input, output),
                               [stats EXCEPT !.files_copied = @ + 1], t0 + 1)
         IN [pc |-> "done", files |-> fs2, stats |-> fin.stats, clock |-> t0 + 2,
             emits |-> <<0, 10, 20, 50, 100>>, result |-> fin.result]
    ELSE LET fin == FinishFile(CopyFailed(base), stats, t0 + 1)
         IN [pc |-> "done", files |-> fs1, stats |-> fin.stats, clock |-> t0 + 2,
             emits |-> <<0, 10, 20, 50>>, result |-> fin.result]

\* result.update(ocr_result); result['processing_type'] = 'ocr_applied'
\* (lines 181-182): keys the OCR result holds replace those of the base
UpdateWithOcr(base, ocr) ==
    [base EXCEPT !.success = ocr.success,
                 !.error = ocr.error,
                 !.input_path = IF ocr.input_path # NoPath THEN ocr.input_path ELSE @,
                 !.output_path = IF ocr.output_path # NoPath THEN ocr.output_path ELSE @,
                 !.input_size = ocr.input_size,
                 !.output_size = ocr.output_size,
                 !.processing_type = "ocr_applied"]

\* (mutation of FileEndOutcome: files_with_ocr is counted whether or not the
\* OCR succeeded)
FileEndOutcome_CountsEveryOcr ==
    FinishFile(UpdateWithOcr(file.result, pdf.result),
               [stats EXCEPT !.files_with_ocr = @ + 1], clock)

\* process_file after process_pdf returned, lines 181-230
FileEndOutcome ==
    LET res == UpdateWithOcr(file.result, pdf.result)
        st == IF pdf.result.success
              THEN [stats EXCEPT !.files_with_ocr = @ + 1] ELSE stats
    IN FinishFile(res, st, clock)

-----------------------------------------------------------------------------
(* Calls *)

\* no call is running: the processor is used by one caller at a time
Idle == batch.pc # "loop" /\ file.pc # "ocr" /\ pdf.pc \in {"idle", "done"}

\* an output path chosen by the caller of process_file
UserOut == [kind |-> "user", doc |-> "", n |-> 0]

CalledPdf(input, output) ==
    [IdlePdf EXCEPT !.pc = "start", !.caller = "file", !.input = input, !.output = output]

\* a direct call of process_file(input, output_path, force_ocr, callback)
FileCall ==
    /\ Idle
    /\ work + 2 <= MaxWork
    /\ \E d \in DocNames \cup OtherNames, out \in {NoPath, UserOut}, force_ocr \in BOOLEAN,
          raises \in BOOLEAN, copyOk \in BOOLEAN, backupOk \in BOOLEAN :
        \E o \in {FileBegin(InPath(d), out, force_ocr, raises, copyOk, backupOk)} :
        /\ file' = [pc |-> o.pc, owner |-> "direct", input |-> InPath(d),
                    force_ocr |-> force_ocr, backup_ok |-> backupOk,
                    result |-> o.result]
        /\ pdf' = IF o.pc = "ocr" THEN CalledPdf(InPath(d), o.result.output_path) ELSE IdlePdf
        /\ files' = o.files
        /\ stats' = o.stats
        /\ clock' = o.clock
        /\ logs' = FileEmit(NoLogs, "direct", o.emits)
    /\ work' = work + 2
    /\ batch' = IdleBatch
    /\ UNCHANGED create_backups
    /\ UNCHANGED <<probe, gui, runs, fallback>>

\* process_file returns after the OCR engine did (also inside a batch:
\* results.append(result), lines 282-283)
FileEnd ==
    /\ file.pc = "ocr"
    /\ pdf.pc = "done"
    /\ LET fin == FileEndOutcome IN
        /\ file' = [file EXCEPT !.pc = "done", !.result = fin.result]
        /\ stats' = fin.stats
        /\ batch' = IF file.owner = "batch"
                    THEN [batch EXCEPT !.results = Append(@, fin.result), !.i = @ + 1]
                    ELSE batch
    /\ clock' = clock + 1
    /\ UNCHANGED <<files, create_backups, work, pdf, logs>>
    /\ UNCHANGED <<probe, gui, runs, fallback>>

\* a direct call of process_pdf(input_path, output_path, callback)
PdfCall ==
    /\ Idle
    /\ work + 2 <= MaxWork
    /\ \E d \in DocNames :
        pdf' = [IdlePdf EXCEPT !.pc = "start", !.caller = "direct",
                               !.input = InPath(d), !.output = OutPath(d, 0)]
    /\ work' = work + 2
    /\ batch' = IdleBatch
    /\ file' = IdleFile
    /\ logs' = NoLogs
    /\ UNCHANGED <<files, create_backups, stats, clock>>
    /\ UNCHANGED <<probe, gui, runs, fallback>>

\* the caller of the processor calls get_stats() and keeps the dictionary
GetStats ==
    /\ Idle
    /\ work < MaxWork
    /\ batch.snapshot_state # "held" \/ batch.snapshot # get_stats(stats)
    /\ batch' = [batch EXCEPT !.snapshot = get_stats(stats), !.snapshot_state = "held"]
    /\ UNCHANGED <<files, create_backups, stats, clock, work, file, pdf, logs>>
    /\ UNCHANGED <<probe, gui, runs, fallback>>

\* what the caller wrote into the dictionary it holds
Edited(counters) == [counters EXCEPT !.errors = @ + 1, !.files_processed = 0]

\* the caller writes into the dictionary get_stats() returned: the write
\* reaches self.stats only if the two are one object
SnapshotEdit ==
    /\ Idle
    /\ work < MaxWork
    /\ batch.pc = "done"
    /\ batch.snapshot_state = "held"
    /\ batch' = [batch EXCEPT !.snapshot.counters = Edited(@), !.snapshot_state = "edited"]
    /\ stats' = IF batch.snapshot.shared THEN Edited(stats) ELSE stats
    /\ UNCHANGED <<files, create_backups, clock, work, file, pdf, logs>>
    /\ UNCHANGED <<probe, gui, runs, fallback>>

\* PDFProcessor.reset_stats, called between two runs of the processor
ResetStats ==
    /\ Idle
    /\ work < MaxWork
    /\ stats' = ZeroStats
    /\ UNCHANGED <<files, create_backups, clock, work, batch, file, pdf, logs>>
    /\ UNCHANGED <<probe, gui, runs, fallback>>

-----------------------------------------------------------------------------
(* pdf_processor.py: PDFProcessor.process_batch *)

RECURSIVE SeqsUpTo(_, _)
SeqsUpTo(S, n) ==
    IF n = 0 THEN {<< >>}
    ELSE LET shorter == SeqsUpTo(S, n - 1)
         IN shorter \cup {Append(s, x) : s \in {t \in shorter : Len(t) = n - 1}, x \in S}

CountersZero(st) ==
    /\ st.files_processed = 0 /\ st.files_with_ocr = 0 /\ st.files_copied = 0
    /\ st.total_size_processed = 0 /\ st.errors = 0

\* process_batch, lines 259-264
BatchStart ==
    /\ Idle
    /\ work < MaxWork
    /\ batch.snapshot_state = "held" /\ batch.snapshot = get_stats(stats)
    /\ \E names \in SeqsUpTo(BatchNames, MaxWork - work) :
        /\ batch' = [pc |-> "loop", paths |-> [k \in 1..Len(names) |-> InPath(names[k])],
                     i |-> 0, results |-> << >>, fresh |-> CountersZero(stats),
                     completions |-> << >>,
                     snapshot |-> batch.snapshot, snapshot_state |-> "held"]
        /\ work' = work + Max(Len(names), 1)
    /\ stats' = [stats EXCEPT !.start_time = clock]
    /\ clock' = clock + 1
    /\ file' = IdleFile
    /\ pdf' = IdlePdf
    /\ logs' = NoLogs
    /\ UNCHANGED <<files, create_backups>>
    /\ UNCHANGED <<probe, gui, runs, fallback>>

\* (mutation of LoopDone: the loop is left at the first failed file)
LoopDone_BreakOnFailure(b) ==
    b.i = Len(b.paths) \/ (b.results # << >> /\ ~b.results[Len(b.results)].success)

\* the for loop over file_paths (line 266) has run out of paths
LoopDone(b) == b.i = Len(b.paths)

\* overall_progress = int((i / total_files) * 100)
overall_progress(i, total_files) == TruncDiv(100 * i, total_files)

\* one iteration of the loop, lines 266-283: the overall progress, then
\* process_file up to its return or up to its call of process_pdf (a failing
\* backup copy is explored for the direct calls of process_file only)
BatchNextFile ==
    /\ batch.pc = "loop"
    /\ batch.i < Len(batch.paths)
    /\ ~LoopDone(batch)
    /\ file.pc # "ocr"
    /\ \E raises \in BOOLEAN, copyOk \in BOOLEAN :
        \E o \in {FileBegin(batch.paths[batch.i + 1], NoPath, FALSE, raises, copyOk, TRUE)} :
        LET input == batch.paths[batch.i + 1]
            lg == [pdf |-> << >>, file |-> << >>,
                   batch |-> Append(logs.batch,
                                    OwnReport(overall_progress(batch.i, Len(batch.paths))))]
        IN
        /\ file' = [pc |-> o.pc, owner |-> "batch", input |-> input,
                    force_ocr |-> FALSE, backup_ok |-> TRUE, result |-> o.result]
        /\ pdf' = IF o.pc = "ocr" THEN CalledPdf(input, o.result.output_path) ELSE IdlePdf
        /\ files' = o.files
        /\ stats' = o.stats
        /\ clock' = o.clock
        /\ logs' = FileEmit(lg, "batch", o.emits)
        /\ batch' = IF o.pc = "done"
                    THEN [batch EXCEPT !.results = Append(@, o.result), !.i = @ + 1]
                    ELSE batch
    /\ UNCHANGED <<create_backups, work>>
    /\ UNCHANGED <<probe, gui, runs, fallback>>

\* (mutation of BatchFinish: the snapshot is taken and the callback called
\* first, the end time and the final progress report follow)
BatchFinish_CallbackFirst ==
    /\ batch.pc = "loop"
    /\ LoopDone(batch)
    /\ file.pc # "ocr"
    /\ stats' = [stats EXCEPT !.end_time = clock]
    /\ batch' = [batch EXCEPT !.pc = "done",
                    !.completions = Append(@, [results |-> batch.results,
                                               stats |-> get_stats(stats),
                                               reports |-> Len(logs.batch)])]
    /\ clock' = clock + 1
    /\ logs' = [logs EXCEPT !.batch = Append(@, OwnReport(100))]
    /\ UNCHANGED <<files, create_backups, work, file, pdf>>
    /\ UNCHANGED <<probe, gui, runs, fallback>>

\* (mutation of BatchFinish: the final progress report is left out)
BatchFinish_NoFinalReport ==
    /\ batch.pc = "loop"
    /\ LoopDone(batch)
    /\ file.pc # "ocr"
    /\ stats' = [stats EXCEPT !.end_time = clock]
    /\ batch' = [batch EXCEPT !.pc = "done",
                    !.completions = Append(@, [results |-> batch.results,
                                               stats |-> get_stats(stats'),
                                               reports |-> Len(logs.batch)])]
    /\ clock' = clock + 1
    /\ UNCHANGED <<files, create_backups, work, file, pdf, logs>>
    /\ UNCHANGED <<probe, gui, runs, fallback>>

\* process_batch, lines 298-310: end time, final progress, completion
\* callback; reports: how many progress reports the batch had made when the
\* completion callback was called
BatchFinish ==
    /\ batch.pc = "loop"
    /\ LoopDone(batch)
    /\ file.pc # "ocr"
    /\ LET st == [stats EXCEPT !.end_time = clock]
           lg == Append(logs.batch, OwnReport(100))
       IN
        /\ stats' = st
        /\ logs' = [logs EXCEPT !.batch = lg]
        /\ batch' = [batch EXCEPT !.pc = "done",
                        !.completions = Append(@, [results |-> batch.results,
                                                   stats |-> get_stats(st),
                                                   reports |-> Len(lg)])]
    /\ clock' = clock + 1
    /\ UNCHANGED <<files, create_backups, work, file, pdf>>
    /\ UNCHANGED <<probe, gui, runs, fallback>>

-----------------------------------------------------------------------------

Next ==
    \/ BatchStart
    \/ BatchNextFile
    \/ BatchFinish
    \/ FileCall
    \/ FileEnd
    \/ PdfCall
    \/ PdfStart
    \/ PdfPrimary
    \/ PdfSecondary
    \/ PdfTertiary
    \/ PdfFinalize
    \/ PdfExcept
    \/ ResetStats
    \/ GetStats
    \/ SnapshotEdit

Spec == Init /\ [][Next]_vars

-----------------------------------------------------------------------------
(* Asynchronous calls: ocr_processor.py 506-526, pdf_processor.py 312-329 *)

\* threading.Thread(target=worker, daemon=True); thread.start(); return thread
Started(kind) ==
    [gui EXCEPT !.worker = kind, !.thread = "started", !.caller = "returned"]

\* process_batch_async(file_paths, progress_callback, completion_callback):
\* the thread is started and the call returns
ProcessBatchAsync ==
    /\ Idle /\ batch.pc = "idle"
    /\ gui.worker = "none"
    /\ work < MaxWork
    /\ batch.snapshot_state = "held" /\ batch.snapshot = get_stats(stats)
    /\ gui' = Started("batch")
    /\ UNCHANGED <<files, create_backups, stats, clock, work, batch, file, pdf, logs, probe, runs, fallback>>

\* the files handed to the asynchronous batch: one that is reported at
\* once, one that is copied and one that goes through OCR
AsyncNames == {"missing", "text", "scan"}

\* the worker of process_batch_async enters process_batch
WorkerBatchStart ==
    /\ gui.worker = "batch" /\ gui.thread = "started"
    /\ batch.pc = "idle"
    /\ BatchStart
    /\ \A k \in 1..Len(batch'.paths) : batch'.paths[k].doc \in AsyncNames

\* the worker of process_batch_async: process_batch returned, the thread ends
WorkerBatchReturn ==
    /\ gui.worker = "batch" /\ gui.thread = "started"
    /\ batch.pc = "done"
    /\ gui' = [gui EXCEPT !.thread = "finished"]
    /\ UNCHANGED <<files, create_backups, stats, clock, work, batch, file, pdf, logs, probe, runs, fallback>>

\* process_pdf_async(input_path, output_path, completion_callback, ...):
\* the thread is started and the call returns
ProcessPdfAsync ==
    /\ Idle /\ pdf.pc = "idle"
    /\ gui.worker = "none"
    /\ work + 2 <= MaxWork
    /\ gui' = Started("pdf")
    /\ UNCHANGED <<files, create_backups, stats, clock, work, batch, file, pdf, logs, probe, runs, fallback>>

\* the worker of process_pdf_async enters process_pdf
WorkerPdfCall ==
    /\ gui.worker = "pdf" /\ gui.thread = "started"
    /\ pdf.pc = "idle"
    /\ PdfCall

\* (mutation of WorkerPdfReturn: the thread ends without calling back)
WorkerPdfReturn_NoCallback ==
    /\ gui.worker = "pdf" /\ gui.thread = "started"
    /\ pdf.pc = "done"
    /\ gui' = [gui EXCEPT !.thread = "finished"]
    /\ UNCHANGED <<files, create_backups, stats, clock, work, batch, file, pdf, logs, probe, runs, fallback>>

\* the worker of process_pdf_async: process_pdf returned,
\* completion_callback(result), the thread ends
WorkerPdfReturn ==
    /\ gui.worker = "pdf" /\ gui.thread = "started"
    /\ pdf.pc = "done"
    /\ gui' = [gui EXCEPT !.thread = "finished",
                         !.completions = Append(@, pdf.result)]
    /\ UNCHANGED <<files, create_backups, stats, clock, work, batch, file, pdf, logs, probe, runs, fallback>>

\* a step of the background thread
WorkerStep ==
    \/ WorkerBatchStart
    \/ BatchNextFile
    \/ FileEnd
    \/ BatchFinish
    \/ WorkerBatchReturn
    \/ WorkerPdfCall
    \/ PdfStart
    \/ PdfPrimary
    \/ PdfSecondary
    \/ PdfTertiary
    \/ PdfFinalize
    \/ PdfExcept
    \/ WorkerPdfReturn

NextAsync ==
    \/ GetStats
    \/ ProcessBatchAsync
    \/ ProcessPdfAsync
    \/ WorkerStep

\* the thread the call started keeps running and the backend terminates:
\* a step of the worker that stays possible is taken
SpecAsync == Init /\ [][NextAsync]_vars /\ WF_vars(WorkerStep)


-----------------------------------------------------------------------------
(* pdf_analyzer.py called directly: PDFAnalyzer.analyze_pdf on one document *)

\* the page texts the documents are made of
PageKinds ==
    {Plain(0), Plain(10), Plain(20), Plain(60),
     PageText(0, 21, 0, 1), PageText(2, 25, 0, 2), PageText(0, 0, 30, 0)}

Rep(page, n) == [k \in 1..n |-> page]

\* a path without a file, a file that fitz cannot open, and the documents of
\* up to MaxRun pages of one kind followed by up to MaxRun of another
ProbeDocs ==
    {[exists |-> FALSE, valid |-> FALSE, pages |-> << >>, enc |-> "none", size |-> 0],
     [exists |-> TRUE, valid |-> FALSE, pages |-> << >>, enc |-> "none", size |-> 1]}
    \cup {[exists |-> TRUE, valid |-> TRUE, pages |-> Rep(a, m) \o Rep(b, n),
            enc |-> "none", size |-> 1] :
              a \in PageKinds, b \in PageKinds, m \in 0..MaxRun, n \in 0..MaxRun}

ProbePath == InPath("probe")

InitAnalyzer ==
    /\ probe \in [pc : {"call"}, doc : ProbeDocs, result : {NoAnalysis}]
    /\ files = [q \in (IF probe.doc.exists THEN {ProbePath} ELSE {}) |-> Original("probe")]
    /\ create_backups = FALSE
    /\ stats = ZeroStats
    /\ clock = 0
    /\ work = 0
    /\ batch = IdleBatch
    /\ file = IdleFile
    /\ pdf = IdlePdf
    /\ logs = NoLogs
    /\ gui = NoGui
    /\ runs = NoRuns
    /\ fallback = NoFallback

\* analyzer.analyze_pdf(pdf_path)
AnalyzePdf ==
    /\ probe.pc = "call"
    /\ probe' = [probe EXCEPT !.pc = "done", !.result = analyze_pdf(files, ProbePath)]
    /\ UNCHANGED <<files, create_backups, stats, clock, work, batch, file, pdf, logs>>
    /\ UNCHANGED <<gui, runs, fallback>>

NextAnalyzer == AnalyzePdf

SpecAnalyzer == InitAnalyzer /\ [][NextAnalyzer]_vars

-----------------------------------------------------------------------------
(* pdf_processor.py: two process_batch runs on one PDFProcessor at a time *)

\* Each of two threads calls process_batch on the same processor. The
\* statements of a thread run in order, the threads interleave between
\* statements, and self.stats[key] += n is two statements: the value is
\* read, and later the sum is stored. runs.run[t] is the position of
\* thread t: pending are the increments its file in progress still has to
\* make, loaded the value its += in progress has read, counted the number
\* of its files that have passed the counting step (lines 220-227 or 234);
\* runs.overlapped tells whether the two runs were ever under way together.

\* the files given to the two runs: one that is reported before the
\* counting step and one that is copied (or fails to copy)
OverlapNames == {"missing", "text"}

IdleRun ==
    [pc |-> "idle", paths |-> << >>, i |-> 0, pending |-> << >>,
     loaded |-> NoValue, counted |-> 0, started_at |-> NoValue]

UnderWay(r) == r.pc \notin {"idle", "done"}

\* the counters in the order in which process_file changes them (lines 185,
\* 203, 221, 222, 227)
CounterKeys ==
    <<"files_with_ocr", "files_copied", "files_processed", "total_size_processed",
      "errors">>

\* the += statements that take the counters from `before` to `after`
RECURSIVE Increments(_, _, _)
Increments(before, after, k) ==
    IF k > Len(CounterKeys) THEN << >>
    ELSE LET key == CounterKeys[k] IN
         (IF after[key] # before[key]
          THEN <<[key |-> key, amount |-> after[key] - before[key]]>>
          ELSE << >>) \o Increments(before, after, k + 1)

\* (mutation of Incremented: the amount is stored, the value read is dropped)
Incremented_Assigned(loaded, amount) == amount

\* self.stats[key] += amount: the value stored for the value read
Incremented(loaded, amount) == loaded + amount

InitOverlap ==
    /\ files = InitFiles
    /\ create_backups = FALSE
    /\ stats = ZeroStats
    /\ clock = 0
    /\ work = 0
    /\ batch = IdleBatch
    /\ file = IdleFile
    /\ pdf = IdlePdf
    /\ logs = NoLogs
    /\ probe = NoProbe
    /\ gui = NoGui
    /\ runs = [run |-> <<IdleRun, IdleRun>>, overlapped |-> FALSE]
    /\ fallback = NoFallback

\* thread t enters process_batch: line 259
OverlapStart(t) ==
    /\ runs.run[t].pc = "idle"
    /\ \E names \in SeqsUpTo(OverlapNames, MaxWork - work) :
        /\ runs' = [run |-> [runs.run EXCEPT ![t] =
                            [IdleRun EXCEPT !.pc = "next", !.started_at = clock,
                                            !.paths = [k \in 1..Len(names) |-> InPath(names[k])]]],
                    overlapped |-> runs.overlapped \/ \E u \in 1..2 : UnderWay(runs.run[u])]
        /\ work' = work + Len(names)
    /\ stats' = [stats EXCEPT !.start_time = clock]
    /\ clock' = clock + 1
    /\ UNCHANGED <<files, create_backups, batch, file, pdf, logs, probe, gui, fallback>>

\* thread t runs process_file on its next file up to the first statement
\* that changes a counter (or up to its return, when none does)
OverlapFile(t) ==
    LET r == runs.run[t] IN
    /\ r.pc = "next" /\ r.i < Len(r.paths)
    /\ \E copyOk \in BOOLEAN :
        \E o \in {FileBegin(r.paths[r.i + 1], NoPath, FALSE, FALSE, copyOk, TRUE)} :
        LET todo == Increments(stats, o.stats, 1) IN
        /\ files' = o.files
        /\ clock' = o.clock
        /\ runs' = [runs EXCEPT !.run[t] =
                        IF todo = << >>
                        THEN [r EXCEPT !.i = @ + 1]
                        ELSE [r EXCEPT !.pc = "load", !.pending = todo]]
    /\ UNCHANGED <<create_backups, stats, work, batch, file, pdf, logs, probe, gui, fallback>>

\* thread t reads the counter of its next +=
OverlapLoad(t) ==
    LET r == runs.run[t] IN
    /\ r.pc = "load"
    /\ runs' = [runs EXCEPT !.run[t] =
                    [r EXCEPT !.pc = "store", !.loaded = stats[r.pending[1].key]]]
    /\ UNCHANGED <<files, create_backups, stats, clock, work, batch, file, pdf, logs, probe,
                   gui, fallback>>

\* thread t stores the sum; the file has passed the counting step when
\* files_processed or errors is stored; after the last += of the file
\* process_file returns
OverlapStore(t) ==
    LET r == runs.run[t]
        inc == r.pending[1]
        rest == Tail(r.pending)
    IN
    /\ r.pc = "store"
    /\ stats' = [stats EXCEPT ![inc.key] = Incremented(r.loaded, inc.amount)]
    /\ runs' = [runs EXCEPT !.run[t] =
                    [r EXCEPT !.pc = IF rest = << >> THEN "next" ELSE "load",
                              !.pending = rest,
                              !.loaded = NoValue,
                              !.counted = IF inc.key \in {"files_processed", "errors"}
                                          THEN @ + 1 ELSE @,
                              !.i = IF rest = << >> THEN @ + 1 ELSE @]]
    /\ UNCHANGED <<files, create_backups, clock, work, batch, file, pdf, logs, probe, gui,
                   fallback>>

\* thread t leaves the loop of process_batch: line 298
OverlapEnd(t) ==
    LET r == runs.run[t] IN
    /\ r.pc = "next" /\ r.i = Len(r.paths)
    /\ stats' = [stats EXCEPT !.end_time = clock]
    /\ clock' = clock + 1
    /\ runs' = [runs EXCEPT !.run[t] = [r EXCEPT !.pc = "done"]]
    /\ UNCHANGED <<files, create_backups, work, batch, file, pdf, logs, probe, gui, fallback>>

NextOverlap ==
    \E t \in 1..2 :
        \/ OverlapStart(t)
        \/ OverlapFile(t)
        \/ OverlapLoad(t)
        \/ OverlapStore(t)
        \/ OverlapEnd(t)

SpecOverlap == InitOverlap /\ [][NextOverlap]_vars

-----------------------------------------------------------------------------
(* ocr_processor.py: OCRProcessor._tesseract_fallback_ocr on one document *)

\* the documents the fallback is handed: one that fitz cannot open and the
\* scanned documents of up to MaxPages pages
FallbackDocs ==
    {[exists |-> TRUE, valid |-> FALSE, pages |-> << >>, enc |-> "none", size |-> 1]}
    \cup {[exists |-> TRUE, valid |-> TRUE, pages |-> Rep(Plain(0), n),
            enc |-> "none", size |-> 1] : n \in 0..MaxPages}

FallbackOutput == OutPath("probe", 0)

InitFallback ==
    /\ probe \in [pc : {"none"}, doc : FallbackDocs, result : {NoAnalysis}]
    /\ files = [q \in {ProbePath} |-> Original("probe")]
    /\ create_backups = FALSE
    /\ stats = ZeroStats
    /\ clock = 0
    /\ work = 0
    /\ batch = IdleBatch
    /\ file = IdleFile
    /\ pdf = IdlePdf
    /\ logs = NoLogs
    /\ gui = NoGui
    /\ runs = NoRuns
    /\ fallback = [NoFallback EXCEPT !.pc = "call"]

\* self._tesseract_fallback_ocr(input_path, output_path, progress_callback)
TesseractFallback ==
    /\ fallback.pc = "call"
    /\ \E sc \in SecondaryScenarios(Len(Doc(files, ProbePath).pages)) :
        LET r == tesseract_fallback_ocr(files, ProbePath, FallbackOutput, sc) IN
        /\ files' = r.files
        /\ fallback' = [pc |-> "done", scenario |-> sc, ok |-> r.ok]
    /\ UNCHANGED <<create_backups, stats, clock, work, batch, file, pdf, logs, probe, gui, runs>>

NextFallback == TesseractFallback

SpecFallback == InitFallback /\ [][NextFallback]_vars

-----------------------------------------------------------------------------
(* Properties *)

NonDecreasing(s) == \A k \in 1..(Len(s) - 1) : s[k] <= s[k + 1]

Failed(strategy) == Attempt(strategy, FALSE)

\* C1: process_pdf tries its strategies in the order primary, secondary,
\* tertiary: the secondary only after the primary failed, the tertiary only
\* after the secondary failed, nothing after a strategy that succeeded, and
\* the failure of the chain ("all methods failed") only after the three of
\* them were attempted and failed.
C1_FallbackOrder ==
    LET a == pdf.attempts IN
    /\ Len(a) <= 3
    /\ Len(a) >= 1 => a[1].strategy = "primary"
    /\ Len(a) >= 2 => a[1] = Failed("primary") /\ a[2].strategy = "secondary"
    /\ Len(a) >= 3 => a[2] = Failed("secondary") /\ a[3].strategy = "tertiary"
    /\ pdf.pc = "secondary" <=> (Len(a) = 1 /\ a[1] = Failed("primary"))
    /\ pdf.pc = "tertiary" <=> (Len(a) = 2 /\ a[2] = Failed("secondary"))
    /\ pdf.pc = "except" => (Len(a) = 3 /\ a[3] = Failed("tertiary"))
    /\ pdf.pc = "finalize" => (Len(a) >= 1 /\ Last(a).ok)
    /\ (Len(a) >= 1 /\ Last(a).ok) => pdf.pc \in {"finalize", "done"}
    /\ pdf.pc \in {"idle", "start", "primary"} => a = << >>
    /\ (pdf.pc = "done" /\ a # << >>) => (Last(a).ok \/ Len(a) = 3)
    /\ (pdf.pc = "done" /\ a # << >> /\ ~Last(a).ok) =>
           (~pdf.result.success /\ a = <<Failed("primary"), Failed("secondary"), Failed("tertiary")>>)

C1_Witness ==
    /\ pdf.pc = "done"
    /\ ~pdf.result.success
    /\ pdf.attempts = <<Failed("primary"), Failed("secondary"), Failed("tertiary")>>

\* the result is about this path
ResultPath(r) == IF r.input_path # NoPath THEN r.input_path ELSE r.file_path

\* C2: process_batch returns one result per input path, in input order; a
\* file that fails (missing, corrupt, OCR exhausted, copy error, exception)
\* gives an entry with success = false, and the files after it are still
\* attempted: the batch ends only with a result for every path.
C2_BatchResultsMirrorInput ==
    (batch.pc \in {"loop", "done"}) =>
        /\ Len(batch.results) = batch.i
        /\ batch.i <= Len(batch.paths)
        /\ \A k \in 1..Len(batch.results) :
            LET r == batch.results[k] IN
            /\ ResultPath(r) = batch.paths[k]
            /\ ~DocTable[batch.paths[k].doc].exists => ~r.success
            /\ ~DocTable[batch.paths[k].doc].valid => ~r.success
            /\ r.success => Exists(files, r.output_path)
            /\ r.error # None => ~r.success
        /\ batch.pc = "done" =>
            /\ Len(batch.results) = Len(batch.paths)
            /\ Len(batch.completions) = 1
            /\ batch.completions[1].results = batch.results

C2_Witness ==
    /\ batch.pc = "done"
    /\ Len(batch.paths) = 2
    /\ ~batch.results[1].success
    /\ batch.results[2].success

\* C3: after a completed batch on a fresh or reset processor,
\* files_processed + errors is the number of files attempted.
C3_ProcessedPlusErrorsIsAttempted ==
    (batch.pc = "done" /\ batch.fresh) =>
        stats.files_processed + stats.errors = Len(batch.paths)


\* the results process_file returned: the one of the last call and the
\* entries of the batch's result list
AllResults ==
    (IF file.pc = "done" THEN {file.result} ELSE {})
    \cup {batch.results[k] : k \in 1..Len(batch.results)}
    \cup UNION {{c.results[k] : k \in 1..Len(c.results)} :
                c \in {batch.completions[j] : j \in 1..Len(batch.completions)}}

\* process_file called the OCR engine
EngineInvoked == pdf.caller = "file" /\ pdf.pc # "idle"

\* C4: for a document that exists and passes analysis, process_file records
\* 'ocr_applied' and calls the OCR engine exactly when (not has_embedded_text
\* or force_ocr), and otherwise records 'copy_only' and does not call it.
C4_StrategyFollowsNeedsOcr ==
    (file.pc = "done" /\ file.result.analysis.success) =>
        LET r == file.result IN
        IF ~r.analysis.has_embedded_text \/ file.force_ocr
        THEN r.processing_type = "ocr_applied" /\ EngineInvoked
        ELSE r.processing_type = "copy_only" /\ ~EngineInvoked

\* C5: a result with strategy copy_only belongs to a document with embedded
\* text processed without force_ocr; its output holds the bytes of the input,
\* the input still holds its original bytes, and input_size = output_size.
\* Conversely a successful process_file without force_ocr on a document with
\* embedded text has strategy copy_only.
C5_CopyOnlyIsByteIdentical ==
    /\ \A r \in AllResults :
        r.processing_type = "copy_only" =>
            /\ r.success
            /\ r.analysis.has_embedded_text
            /\ r.output_path # r.input_path
            /\ Exists(files, r.input_path) /\ Exists(files, r.output_path)
            /\ files[r.output_path] = files[r.input_path]
            /\ files[r.input_path] = InitFiles[r.input_path]
            /\ r.input_size = r.output_size
    /\ (file.pc = "done" /\ ~file.force_ocr /\ file.result.success
            /\ file.result.analysis.has_embedded_text) =>
           file.result.processing_type = "copy_only"

C5_Witness ==
    /\ file.pc = "done"
    /\ ~file.force_ocr
    /\ file.result.processing_type = "copy_only"
    /\ files[file.result.output_path] = Original(file.input.doc)

\* C6: every result of process_file, and every entry of a batch's result
\* list, has an output path when success is true and an error message when
\* success is false.
C6_ResultsArePopulated ==
    \A r \in AllResults :
        /\ r.success => r.output_path # NoPath
        /\ ~r.success => r.error \notin {None, ""}

C6_Witness ==
    /\ batch.pc = "done"
    /\ \E k \in 1..Len(batch.results) : batch.results[k].success
    /\ \E k \in 1..Len(batch.results) :
        ~batch.results[k].success /\ batch.results[k].error = "Error al copiar archivo"

\* C7: when process_pdf has returned, a temporary decrypted copy it created
\* does not exist any more.
C7_TempCopyRemoved ==
    (pdf.pc = "done" /\ pdf.temp_input \notin {NoPath, pdf.input}) =>
        ~Exists(files, pdf.temp_input)

WithoutSentinel(s) == SelectSeq(s, LAMBDA v : v # -1)

\* C8: the percentages one process_pdf call hands to its progress callback,
\* the failure sentinel -1 apart, lie in 0..100 and never decrease.
C8_PdfProgressMonotone ==
    LET s == WithoutSentinel(logs.pdf) IN
    /\ \A k \in 1..Len(s) : s[k] \in 0..100
    /\ NonDecreasing(s)

\* C9: the values process_batch hands to the caller's progress callback never
\* decrease over the batch (values computed from a file's failure sentinel
\* are left out of the comparison), and 100 is reported only once the last
\* file's own callback has reported 100.
C9_BatchProgressMonotone ==
    LET kept == SelectSeq(logs.batch, LAMBDA e : ~(e.from = "file" /\ e.percent = -1))
        values == [k \in 1..Len(kept) |-> kept[k].value]
    IN
    /\ NonDecreasing(values)
    /\ (batch.paths # << >> /\ \E k \in 1..Len(logs.batch) : logs.batch[k].value = 100) =>
           /\ file.input = batch.paths[Len(batch.paths)]
           /\ \E k \in 1..Len(logs.file) : logs.file[k] = 100

\* C10: within one process_file call the percentages handed to the file's
\* progress callback, the failure sentinel -1 apart, never decrease.
C10_FileProgressMonotone == NonDecreasing(WithoutSentinel(logs.file))

\* C11: when the three strategies all failed, process_pdf returns
\* success = false with an error that carries the individual failure of each
\* of the three strategies.
C11_ExhaustionErrorAggregates ==
    (pdf.pc = "done"
        /\ pdf.attempts = <<Failed("primary"), Failed("secondary"), Failed("tertiary")>>) =>
        /\ ~pdf.result.success
        /\ pdf.result.error # None
        /\ pdf.result.error_causes = {"primary", "secondary", "tertiary"}

\* the entries of a result list that satisfy P
CountOf(results, P(_)) == Cardinality({k \in 1..Len(results) : P(results[k])})

\* C12: the counters of the snapshot handed to the completion callback count
\* the files of that batch only, whatever ran on the processor before.
C12_SnapshotCountsThisBatch ==
    batch.pc = "done" =>
        LET c == batch.completions[1].stats.counters
            r == batch.results
        IN
        /\ c.files_processed = CountOf(r, LAMBDA x : x.success)
        /\ c.files_with_ocr = CountOf(r, LAMBDA x : x.success /\ x.processing_type = "ocr_applied")
        /\ c.files_copied = CountOf(r, LAMBDA x : x.success /\ x.processing_type = "copy_only")
        /\ c.errors <= CountOf(r, LAMBDA x : ~x.success)

CountersNonDecreasing ==
    /\ stats'.files_processed >= stats.files_processed
    /\ stats'.files_with_ocr >= stats.files_with_ocr
    /\ stats'.files_copied >= stats.files_copied
    /\ stats'.errors >= stats.errors
    /\ stats'.total_size_processed >= stats.total_size_processed

\* C13: no step of process_batch, process_file or process_pdf decreases one of
\* the counters files_processed, files_with_ocr, files_copied, errors and
\* total_size_processed; only reset_stats does.
C13_CountersMonotone == [][(~ResetStats) => CountersNonDecreasing]_vars

C13_Witness ==
    /\ batch.pc = "loop"
    /\ Len(batch.results) = 2
    /\ batch.results[1].success /\ ~batch.results[2].success
    /\ stats.files_processed = 1 /\ stats.errors = 1 /\ stats.total_size_processed > 0

\* the snapshots get_stats produces: the one a call would return now and
\* those handed to a completion callback
Snapshots ==
    {get_stats(stats)} \cup {batch.completions[j].stats : j \in 1..Len(batch.completions)}

\* C14: success_rate is files_processed / (files_processed + errors) * 100
\* over the counters of the snapshot; it lies in [0, 100], and it is 0 when no
\* file has been attempted.
C14_SuccessRate ==
    \A g \in Snapshots :
        LET c == g.counters
            attempted == c.files_processed + c.errors
            rate == g.success_rate
        IN
        /\ rate.den > 0
        /\ 0 <= rate.num /\ rate.num <= 100 * rate.den
        /\ attempted = 0 => rate.num = 0
        /\ attempted > 0 => rate.num * attempted = 100 * c.files_processed * rate.den

C14_Witness ==
    /\ batch.pc = "done"
    /\ batch.completions[1].stats.counters.files_processed = 1
    /\ batch.completions[1].stats.counters.errors = 1
    /\ batch.completions[1].stats.success_rate = [num |-> 100, den |-> 2]

\* what the caller reads in a dictionary it got from get_stats()
View(s) == IF s.shared THEN [get_stats(stats) EXCEPT !.shared = s.shared] ELSE s

C20_ProcessingNeededMatchesStrategy ==
    (file.pc = "done" /\ file.result.analysis.success) =>
        LET a == file.result.analysis IN
        /\ a.processing_needed <=> (~a.has_embedded_text \/ file.force_ocr)
        /\ a.processing_needed <=> (file.result.processing_type = "ocr_applied")

\* the numeric suffix of a generated output path (0: no suffix)
MaxSuffix == Cardinality(DOMAIN files)

\* two results of one batch that follow each other
Consecutive == {k \in 1..Len(batch.results) : k > 1}

\* C21: generate_output_filename returns a path at which no file exists; the
\* path is a function of the input name and of the files that exist (the call
\* writes nothing, so a second call without a file written in between gives
\* the same path): the base name when it is free, else the base name with
\* the smallest free numeric suffix _1, _2, ...  In a batch, a file whose
\* output was written (success) and the file processed right after it never
\* have the same output path.
C21_FreshOutputPath ==
    /\ \A d \in DocNames :
         LET out == generate_output_filename(files, InPath(d)) IN
         /\ ~Exists(files, out)
         /\ \E k \in 0..MaxSuffix :
              /\ out = OutPath(d, k)
              /\ \A j \in 0..(k - 1) : Exists(files, OutPath(d, j))
    /\ \A k \in Consecutive :
         LET r1 == batch.results[k - 1]
             r2 == batch.results[k]
         IN (r1.success /\ r2.output_path # NoPath) => r1.output_path # r2.output_path

\* a batch gave the same document twice: the first output took the base name,
\* the second one the suffix _1
C21_Witness ==
    /\ batch.pc = "done" /\ Len(batch.results) = 2
    /\ batch.paths[1] = batch.paths[2]
    /\ batch.results[1].success /\ batch.results[2].success
    /\ batch.results[1].output_path = OutPath(batch.paths[1].doc, 0)
    /\ batch.results[2].output_path = OutPath(batch.paths[1].doc, 1)
    /\ generate_output_filename(files, batch.paths[1]) = OutPath(batch.paths[1].doc, 2)

\* C21 as stated: two files processed one after the other in a batch never
\* receive the same output path.
C21_ConsecutiveOutputsDiffer ==
    \A k \in Consecutive :
        LET r1 == batch.results[k - 1]
            r2 == batch.results[k]
        IN (r1.output_path # NoPath /\ r2.output_path # NoPath)
              => r1.output_path # r2.output_path

\* a file that is missing, of the wrong type, unreadable or without pages
Rejected(d) ==
    \/ ~DocTable[d].exists
    \/ d = "notes"
    \/ ~DocTable[d].valid
    \/ DocTable[d].pages = << >>

\* the backups that exist
Backups == {q \in DOMAIN files : q.kind = "bak"}

\* process_file got past the analysis in the running or last call
PassedAnalysis == file.pc \in {"ocr", "done"} /\ file.result.analysis.success

C26_EveryResultIsTimed ==
    file.pc = "done" =>
        LET r == file.result IN
        /\ r.processing_start # NoValue
        /\ r.processing_end # NoValue
        /\ r.processing_duration # NoValue
        /\ r.processing_end >= r.processing_start

\* the counters of work done (all of the statistics but errors and times)
WorkCounters(st) ==
    <<st.files_processed, st.files_with_ocr, st.files_copied, st.total_size_processed>>

\* what a step does to the statistics: it counts work exactly when it is
\* the return of a process_file invocation with success = true
FileStepEffect ==
    IF file' # file /\ file'.pc = "done" /\ file'.result.success
    THEN /\ stats'.files_processed = stats.files_processed + 1
         /\ stats'.total_size_processed =
                stats.total_size_processed + file'.result.analysis.file_size
         /\ stats'.files_with_ocr + stats'.files_copied =
                stats.files_with_ocr + stats.files_copied + 1
         /\ stats'.files_with_ocr >= stats.files_with_ocr
         /\ stats'.files_copied >= stats.files_copied
    ELSE WorkCounters(stats') = WorkCounters(stats)

C28_RejectedFilesAreNotProcessed ==
    /\ [](  (file.pc # "idle" /\ Rejected(file.input.doc)) =>
              /\ file.pc = "done"
              /\ ~file.result.success
              /\ file.result.error \notin {None, ""}
              /\ file.result.processing_type = None
              /\ file.result.backup_path = NoPath
              /\ file.result.output_path = NoPath
              /\ pdf = IdlePdf
              /\ logs.pdf = << >>
              /\ logs.file \in {<<0>>, <<0, 10>>, <<0, -1>>}  )
    /\ [][ ((file' # file \/ batch'.i # batch.i) /\ file'.pc # "idle"
              /\ Rejected(file'.input.doc)) =>
              /\ files' = files
              /\ WorkCounters(stats') = WorkCounters(stats) ]_vars

\* process_file was called on a file whose name does not end in .pdf
C28_Witness ==
    /\ file.pc = "done" /\ file.input = InPath("notes")
    /\ file.result.error = "El archivo no tiene extension .pdf"
    /\ pdf = IdlePdf

\* a result that reports a failure: success = false and an error message
ReportsFailure(r) == ~r.success /\ r.error \notin {None, ""}

\* C29: process_pdf, process_file and process_batch turn every internal
\* failure into a returned result with success = false and an error message:
\* a process_pdf whose three strategies all failed, or whose output was not
\* generated, returns such a result; process_file hands it on with the same
\* message; a failed analysis, a failed copy and an exception caught inside
\* process_file give such a result too; and process_batch ends with one
\* result per path whatever failed.
C29_FailuresBecomeResults ==
    /\ pdf.pc = "done" =>
         /\ pdf.result.success \/ ReportsFailure(pdf.result)
         /\ pdf.result.success => Exists(files, pdf.result.output_path)
         /\ (\A k \in 1..Len(pdf.attempts) : ~pdf.attempts[k].ok) =>
                ReportsFailure(pdf.result)
    /\ file.pc = "done" =>
         /\ file.result.success \/ ReportsFailure(file.result)
         /\ (pdf.pc = "done" /\ pdf.caller = "file") =>
                /\ file.result.success = pdf.result.success
                /\ file.result.error = pdf.result.error
         /\ ~file.result.analysis.success => ReportsFailure(file.result)
    /\ \A k \in 1..Len(batch.results) :
         batch.results[k].success \/ ReportsFailure(batch.results[k])
    /\ batch.pc = "done" => Len(batch.results) = Len(batch.paths)

\* a batch of two files ended: in the first one an exception was caught by
\* process_file, for the second one every OCR strategy failed
C29_Witness ==
    /\ batch.pc = "done" /\ Len(batch.results) = 2
    /\ batch.results[1].error = "Error inesperado"
    /\ pdf.pc = "done" /\ Len(pdf.attempts) = 3
    /\ \A k \in 1..3 : ~pdf.attempts[k].ok
    /\ batch.results[2].error = pdf.result.error
    /\ ReportsFailure(batch.results[2])

\* the statistics were reset after the batch ended
WasReset == CountersZero(stats) /\ stats.start_time = NoValue /\ stats.end_time = NoValue

\* C30: process_batch calls the completion callback exactly once per batch:
\* not while files are still being processed, and once when the batch has
\* ended, after every file was attempted, after end_time was set and after
\* the final progress report of 100; it passes the full result list (one
\* entry per input path) and the statistics as get_stats() gives them at
\* that moment.
C30_CompletionOnceAtEnd ==
    /\ batch.pc = "loop" => batch.completions = << >>
    /\ batch.pc = "done" =>
         /\ Len(batch.completions) = 1
         /\ LET c == batch.completions[1] IN
            /\ c.results = batch.results
            /\ Len(c.results) = Len(batch.paths)
            /\ c.stats.counters.end_time # NoValue
            /\ c.stats.counters.end_time >= c.stats.counters.start_time
            /\ c.stats.total_duration =
                   c.stats.counters.end_time - c.stats.counters.start_time
            /\ c.stats.counters.files_processed + c.stats.counters.errors
                   >= Cardinality({k \in 1..Len(c.results) : c.results[k].success})
            /\ WasReset \/ c.stats = get_stats(stats)
            /\ c.reports = Len(logs.batch)
            /\ Last(logs.batch).value = 100

\* a batch of two files ended and its callback got both results
C30_Witness ==
    /\ batch.pc = "done" /\ Len(batch.paths) = 2
    /\ Len(batch.completions) = 1
    /\ Len(batch.completions[1].results) = 2
    /\ batch.completions[1].stats = get_stats(stats)
    /\ batch.completions[1].stats.counters.files_processed = 1

\* the input of the running process_pdf is not unlocked by the encryption
\* probe: the empty password fails, or the probe raises on opening the file
StaysLocked(p) ==
    Exists(files, p) /\ (Doc(files, p).enc = "locked" \/ ~Doc(files, p).valid)

\* C32: when the input is encrypted and the empty password does not unlock
\* it, or the encryption probe raises, process_pdf does not fail there: it
\* goes on with the original input path, attempts the primary strategy and
\* after it the usual chain (secondary after a failed primary, tertiary after
\* a failed secondary).
C32_LockedInputGoesThroughChain ==
    (pdf.pc \notin {"idle", "start"} /\ StaysLocked(pdf.input)) =>
        LET a == pdf.attempts IN
        /\ pdf.temp_input = pdf.input
        /\ pdf.pc # "primary" => (a # << >> /\ a[1].strategy = "primary")
        /\ \A k \in 1..Len(a) :
              /\ a[k].strategy = <<"primary", "secondary", "tertiary">>[k]
              /\ k < Len(a) => ~a[k].ok
        /\ (pdf.pc = "done" /\ ~pdf.result.success) =>
              \/ a = <<Failed("primary"), Failed("secondary"), Failed("tertiary")>>
              \/ (Last(a).ok /\ ~Exists(files, pdf.output))

\* a document that needs a password went through the three strategies
C32_Witness ==
    /\ pdf.pc = "done"
    /\ Exists(files, pdf.input) /\ Doc(files, pdf.input).enc = "locked"
    /\ pdf.temp_input = pdf.input
    /\ Len(pdf.attempts) = 3

\* the result of a process_file call that took the copy branch and failed:
\* the analysis succeeded, no OCR was needed, the file was not copied
CopyBranchFailed(fr) ==
    /\ fr.pc = "done"
    /\ fr.result.analysis.success
    /\ ~needs_ocr(fr.result.analysis, fr.force_ocr)
    /\ ~fr.result.success

\* C34: a failure of the copy in the copy branch is reported at once and not
\* retried: process_file returns success = false with an error that names
\* the copy failure, adds 1 to errors, leaves files_copied and
\* files_processed as they were, and does not call the OCR engine.
C34_CopyFailureIsFinal ==
    /\ [](CopyBranchFailed(file) =>
            /\ file.result.error = "Error al copiar archivo"
            /\ file.result.processing_type = None
            /\ file.result.output_path.kind = "out" =>
                    ~Exists(files, file.result.output_path)
            /\ pdf = IdlePdf)
    /\ [][(file' # file /\ CopyBranchFailed(file')) =>
            /\ stats'.errors = stats.errors + 1
            /\ stats'.files_copied = stats.files_copied
            /\ stats'.files_processed = stats.files_processed
            /\ stats'.files_with_ocr = stats.files_with_ocr
            /\ stats'.total_size_processed = stats.total_size_processed]_vars

\* the second file of a batch failed to copy after the first was copied
C34_Witness ==
    /\ CopyBranchFailed(file) /\ file.owner = "batch"
    /\ Len(batch.results) = 2 /\ batch.results[1].success
    /\ stats.files_copied = 1 /\ stats.files_processed = 1 /\ stats.errors = 1

C37_DurationNonNegative ==
    (stats.start_time # NoValue /\ stats.end_time # NoValue) =>
        /\ stats.end_time >= stats.start_time
        /\ get_stats(stats).total_duration = stats.end_time - stats.start_time

\* the five counters of the statistics
AllCounters(st) == WorkCounters(st) \o <<st.errors>>

\* C38: process_batch on an empty list of paths ends without an error: the
\* loop has nothing to do (no progress is computed, so nothing is divided by
\* the number of files), the result list is empty, no counter changes,
\* progress 100 is reported once and the completion callback is called once
\* with the empty list and a snapshot of the statistics.
C38_EmptyBatchCompletes ==
    /\ []((batch.pc = "loop" /\ batch.paths = << >>) =>
            /\ LoopDone(batch)
            /\ batch.results = << >> /\ logs.batch = << >>
            /\ batch.completions = << >>)
    /\ []((batch.pc = "done" /\ batch.paths = << >>) =>
            /\ batch.results = << >>
            /\ logs.batch = <<OwnReport(100)>>
            /\ Len(batch.completions) = 1
            /\ batch.completions[1].results = << >>
            /\ batch.completions[1].stats.counters.end_time # NoValue
            /\ ~WasReset => batch.completions[1].stats = get_stats(stats))
    /\ [][(batch' # batch /\ batch'.pc # "idle" /\ batch'.paths = << >>) =>
            AllCounters(stats') = AllCounters(stats)]_vars

\* an empty batch has ended on a processor that had processed a file before
C38_Witness ==
    /\ batch.pc = "done" /\ batch.paths = << >>
    /\ Len(batch.completions) = 1
    /\ stats.files_processed = 1
    /\ batch.completions[1].stats.counters.files_processed = 1

\* the temporary directories of the page-wise fallback that exist
TempDirs(fs) == {q \in DOMAIN fs : q.kind = "tmpdir"}

\* C40: the temporary directory the page-wise fallback creates for the page
\* images and the per-page PDFs is removed on every path by which the
\* fallback returns: no such directory is left once it has returned.
C40_TempDirRemoved ==
    TempDirs(files) = {}

\* the percentages in a log
Reported(lg) == {lg[k] : k \in 1..Len(lg)}

\* C35: in one process_pdf call the progress callback receives 100 exactly
\* when the call returns success = true; when it returns success = false the
\* callback has received the negative sentinel; and the call reports nothing
\* after the sentinel.
C35_SentinelOnEveryFailure ==
    /\ pdf.pc = "done" =>
        /\ 100 \in Reported(logs.pdf) <=> pdf.result.success
        /\ ~pdf.result.success => -1 \in Reported(logs.pdf)
    /\ \A k \in 1..Len(logs.pdf) : logs.pdf[k] < 0 => k = Len(logs.pdf)

-----------------------------------------------------------------------------
(* The window: gui/main_window.py and gui/progress_dialog.py *)

\* a background thread has been started and has not handed its completion
\* to the main loop yet
WorkerRunning ==
    gui.thread = "started" /\ ~(gui.worker = "batch" /\ batch.completions # << >>)

\* (mutation of Busy: the flag is never consulted)
Busy_Never == FALSE

\* "if self.processing_active: messagebox.showwarning(...); return" at the
\* head of analyze_files, process_files and convert_to_word
Busy == gui.processing_active

\* self.processing_active = True and the thread of the operation is started;
\* process_files and convert_to_word open a new ProgressDialog first
StartWorker(kind) ==
    [Started(kind) EXCEPT !.processing_active = TRUE,
                          !.overlap = @ \/ WorkerRunning,
                          !.refused = FALSE,
                          !.canceled_at = NoValue,
                          !.ran = {},
                          !.dialog = "none"]

\* PDFOCRApp.process_files past the selection check: refused while
\* processing_active is set; otherwise (the user confirming) the flag is set
\* and process_batch_async is called with callbacks that hand every update
\* to the main loop by root.after(0, ...)
process_files ==
    \/ /\ Busy
       /\ gui' = [gui EXCEPT !.dialog = "none", !.refused = TRUE]
       /\ UNCHANGED batch
    \/ /\ ~Busy
       /\ work < MaxWork
       /\ gui' = StartWorker("batch")
       /\ batch' = IF batch.pc = "done"
                   THEN [batch EXCEPT !.pc = "idle", !.completions = << >>]
                   ELSE batch

\* the button "APLICAR OCR": process_files is called from the main loop; a
\* refused call leaves a warning and nothing else
ProcessFiles ==
    /\ gui.dialog = "none"
    /\ ~Busy
    /\ process_files
    /\ UNCHANGED <<files, create_backups, stats, clock, work, file, pdf, logs, probe, runs, fallback>>

\* ProgressDialog.on_cancel: self.canceled = True (the dialog asks for the
\* operation to stop); the flag is kept with the number of files that were
\* finished or in flight at that moment
OnCancel ==
    /\ gui.worker = "batch" /\ gui.thread = "started"
    /\ batch.pc = "loop"
    /\ gui.canceled_at = NoValue
    /\ gui' = [gui EXCEPT !.canceled_at = IF file.pc = "ocr" THEN batch.i + 1 ELSE batch.i]
    /\ UNCHANGED <<files, create_backups, stats, clock, work, batch, file, pdf, logs, probe, runs, fallback>>

\* PDFOCRApp.analyze_files, lines 261-272 and 296-297: the files selected in
\* the window, the flag is set and the analysis thread is started
AnalyzeFiles ==
    /\ gui.dialog = "none"
    /\ ~Busy
    /\ \E names \in SeqsUpTo(AsyncNames, MaxWork - work) \ {<< >>} :
        /\ gui' = [StartWorker("analyze") EXCEPT !.selected = names,
                                                 !.analyzed = << >>]
        /\ work' = work + Len(names)
    /\ UNCHANGED <<files, create_backups, stats, clock, batch, file, pdf, logs, probe, runs, fallback>>

\* a part of the presentation state written by a thread
Touch(part, thread) == [part |-> part, thread |-> thread]

\* analyze_worker, lines 276-287: one iteration of the loop (with the status
\* update of line 276 before the first one): self.progress_var.set(progress)
\* and self.update_status(...), which sets self.status_var and calls
\* root.update_idletasks(), are called in the worker thread itself
AnalyzeWorkerFile ==
    /\ gui.worker = "analyze" /\ gui.thread = "started"
    /\ Len(gui.analyzed) < Len(gui.selected)
    /\ gui' = [gui EXCEPT
                 !.analyzed = Append(@, analyze_file(files,
                                         InPath(gui.selected[Len(gui.analyzed) + 1]))),
                 !.touched = @ \cup {Touch("progress_var", "worker"),
                                     Touch("status_var", "worker")}]
    /\ UNCHANGED <<files, create_backups, stats, clock, work, batch, file, pdf, logs, probe, runs, fallback>>

\* analyze_worker, lines 289-294: the results and then the end of the
\* analysis are handed to the main loop, the thread ends
AnalyzeWorkerEnd ==
    /\ gui.worker = "analyze" /\ gui.thread = "started"
    /\ Len(gui.analyzed) = Len(gui.selected)
    /\ gui' = [gui EXCEPT !.thread = "finished",
                          !.pending = @ \cup {"show_analysis_results",
                                              "analysis_completed"}]
    /\ UNCHANGED <<files, create_backups, stats, clock, work, batch, file, pdf, logs, probe, runs, fallback>>

\* PDFOCRApp.convert_to_word (the user confirming and choosing a directory):
\* the flag is set and convert_to_word_async starts the conversion thread;
\* the document converted has a text layer, so that apply_ocr_if_needed
\* hands it on without calling the processor
ConvertToWord ==
    /\ gui.dialog = "none"
    /\ ~Busy
    /\ work < MaxWork
    /\ gui' = [StartWorker("word") EXCEPT !.selected = <<"text">>,
                                          !.analyzed = << >>]
    /\ work' = work + 1
    /\ UNCHANGED <<files, create_backups, stats, clock, batch, file, pdf, logs, probe, runs, fallback>>

\* the worker of convert_to_word_async, line 540: the results are handed to
\* the main loop, the thread ends
WordWorkerEnd ==
    /\ gui.worker = "word" /\ gui.thread = "started"
    /\ gui' = [gui EXCEPT !.thread = "finished",
                          !.pending = @ \cup {"word_conversion_completed"}]
    /\ UNCHANGED <<files, create_backups, stats, clock, work, batch, file, pdf, logs, probe, runs, fallback>>

\* the callbacks handed to the main loop by root.after(0, ...) so far:
\* process_files' progress_callback (361-364) for every progress report of
\* the batch, its completion_callback (366-367), and those of the analysis
\* and the conversion workers
Posted ==
    (IF gui.worker = "batch" /\ logs.batch # << >> THEN {"update_progress"} ELSE {})
    \cup (IF gui.worker = "batch" /\ batch.completions # << >>
          THEN {"processing_completed"} ELSE {})
    \cup gui.pending

\* the parts of the presentation state a callback writes
PartsOf(cb) ==
    CASE cb = "update_progress" -> {"progress_dialog", "progress_var", "status_var"}
      [] cb = "processing_completed" -> {"progress_dialog", "buttons", "results"}
      [] cb = "show_analysis_results" -> {"results"}
      [] cb = "analysis_completed" -> {"buttons", "progress_var", "status_var"}
      [] cb = "word_conversion_completed" -> {"progress_dialog", "buttons", "results"}

\* the callbacks whose first statement is self.processing_active = False:
\* analysis_completed (333), processing_completed (378) and
\* word_conversion_completed (647)
Completions ==
    {"analysis_completed", "processing_completed", "word_conversion_completed"}

\* the Tk main loop (also the one a modal dialog runs while it is open) runs
\* a callback it was handed, the two of the analysis worker in the order
\* they were handed over; show_analysis_results and
\* word_conversion_completed (656-672) open a dialog
MainLoop ==
    /\ \E cb \in Posted \ gui.ran :
        /\ cb = "analysis_completed" => "show_analysis_results" \notin gui.pending
        /\ gui' = [gui EXCEPT
                     !.ran = @ \cup {cb},
                     !.pending = @ \ {cb},
                     !.touched = @ \cup {Touch(part, "main") : part \in PartsOf(cb)},
                     !.processing_active = IF cb \in Completions THEN FALSE ELSE @,
                     !.dialog = CASE cb = "show_analysis_results" -> "results"
                                  [] cb = "word_conversion_completed" -> "converted"
                                  [] OTHER -> @]
    /\ UNCHANGED <<files, create_backups, stats, clock, work, batch, file, pdf, logs, probe, runs, fallback>>

\* need_ocr of show_analysis_results (line 303)
need_ocr(results) ==
    Cardinality({k \in 1..Len(results) :
                   results[k].success /\ ~results[k].has_embedded_text})

\* show_analysis_results, lines 320-329: the user answers the dialog; with
\* files that need OCR a "yes" calls process_files from inside the callback
AnswerResults ==
    /\ gui.dialog = "results"
    /\ \/ /\ gui' = [gui EXCEPT !.dialog = "none"]
          /\ UNCHANGED batch
       \/ /\ need_ocr(gui.analyzed) > 0
          /\ process_files
    /\ UNCHANGED <<files, create_backups, stats, clock, work, file, pdf, logs, probe, runs, fallback>>

\* word_conversion_completed past its dialogs, line 683: the statements of
\* processing_completed repeated at the end of the method clear the flag
\* once more
CloseConverted ==
    /\ gui.dialog = "converted"
    /\ gui' = [gui EXCEPT !.dialog = "none", !.processing_active = FALSE]
    /\ UNCHANGED <<files, create_backups, stats, clock, work, batch, file, pdf, logs, probe, runs, fallback>>

\* the window without the cancel button of the progress dialog
NextWindow ==
    \/ GetStats
    \/ ProcessFiles
    \/ WorkerBatchStart
    \/ BatchNextFile
    \/ FileEnd
    \/ BatchFinish
    \/ WorkerBatchReturn
    \/ PdfStart
    \/ PdfPrimary
    \/ PdfSecondary
    \/ PdfTertiary
    \/ PdfFinalize
    \/ PdfExcept
    \/ AnalyzeFiles
    \/ AnalyzeWorkerFile
    \/ AnalyzeWorkerEnd
    \/ ConvertToWord
    \/ WordWorkerEnd
    \/ AnswerResults
    \/ CloseConverted
    \/ MainLoop

\* ProgressDialog.canceled is read neither by the window nor by the
\* processor: the flag discipline of the window is independent of the
\* cancel button
SpecWindow == Init /\ [][NextWindow]_vars

NextGui ==
    \/ NextWindow
    \/ OnCancel

SpecGui == Init /\ [][NextGui]_vars

-----------------------------------------------------------------------------
(* Properties of the asynchronous calls *)

\* the background thread has not finished its operation
WorkerBusy == gui.thread = "started"

\* C23: process_pdf_async and process_batch_async start one background
\* thread and return to the caller without waiting for the operation; the
\* thread runs the operation and (the backend terminating) the completion
\* callback is eventually called, exactly once, with the operation's result;
\* for a batch only when every input file has been attempted.
C23_AsyncCompletesOnce ==
    /\ [](gui.worker \in {"batch", "pdf"} => gui.caller = "returned")
    /\ [](Len(gui.completions) <= 1 /\ Len(batch.completions) <= 1)
    /\ [](gui.completions # << >> =>
            /\ gui.worker = "pdf" /\ pdf.pc = "done"
            /\ gui.completions[1] = pdf.result)
    /\ [](batch.completions # << >> =>
            /\ gui.worker = "batch"
            /\ Len(batch.completions[1].results) = Len(batch.paths)
            /\ batch.completions[1].results = batch.results)
    /\ (gui.worker = "pdf") ~> (gui.thread = "finished" /\ Len(gui.completions) = 1)
    /\ (gui.worker = "batch") ~> (gui.thread = "finished" /\ Len(batch.completions) = 1)
    /\ [][gui.completions # << >> => gui.completions' = gui.completions]_vars
    /\ [][batch.completions # << >> => batch.completions' = batch.completions]_vars

\* process_batch_async has returned to its caller while the worker is inside
\* the batch, one of two files done and no completion yet
C23_Witness ==
    /\ gui.worker = "batch" /\ gui.caller = "returned" /\ WorkerBusy
    /\ batch.pc = "loop" /\ Len(batch.paths) = 2 /\ Len(batch.results) = 1
    /\ batch.completions = << >>

-----------------------------------------------------------------------------
(* Properties of the window *)

\* C22: once the cancel flag of the progress dialog is set during a running
\* batch, process_batch launches no further file: only the files finished
\* or in flight at that moment get a result, the remaining paths stay
\* unprocessed.
C22_NoLaunchAfterCancel ==
    gui.canceled_at # NoValue =>
        /\ Len(batch.results) <= gui.canceled_at
        /\ file.pc = "ocr" => batch.i + 1 <= gui.canceled_at

\* C24: every update of the presentation state made for a progress or a
\* completion notification is made by the main thread; the worker thread
\* never writes the presentation state itself, neither in batch processing
\* nor in the analysis worker.
C24_PresentationOnMainThread ==
    \A u \in gui.touched : u.thread = "main"

\* C39: in the window at most one background worker runs at a time:
\* processing_active is set for as long as a worker started by
\* analyze_files, process_files or convert_to_word is running (and until its
\* completion callback has run), no worker is started while another one is
\* running, and the batch under way belongs to the one running worker; also
\* when process_files is called from show_analysis_results before
\* analysis_completed has run.
C39_OneWorkerAtATime ==
    /\ WorkerRunning => gui.processing_active
    /\ (Completions \cap (Posted \ gui.ran) # {}) => gui.processing_active
    /\ ~gui.overlap
    /\ batch.pc = "loop" => gui.worker = "batch" /\ gui.thread = "started"

\* process_files was called from the results dialog while analysis_completed
\* was still waiting in the main loop, and returned at its check
C39_Witness ==
    /\ gui.refused
    /\ gui.worker = "analyze" /\ gui.thread = "finished"
    /\ "analysis_completed" \in gui.pending
    /\ gui.processing_active

-----------------------------------------------------------------------------
(* Properties of the analyzer *)

Analyzed == probe.pc = "done"
Readable == probe.doc.exists /\ probe.doc.valid

\* C16: an error while reading the document (file missing, document cannot
\* be opened) gives success = false with a message in error; success = true
\* is never returned for a document that could not be read.
C16_ReadErrorsFail ==
    (Analyzed /\ ~Readable) =>
        /\ ~probe.result.success
        /\ probe.result.error \notin {None, ""}

FirstPages(n) == SubSeq(probe.doc.pages, 1, Min(n, Len(probe.doc.pages)))

\* C17: has_embedded_text is true exactly when the meaningful characters of
\* the first min(5, page_count) pages are more than min_text_length (50), so
\* pages after the fifth have no influence; the page count returned is the
\* total page count.
C17_TextInFirstFivePages ==
    (Analyzed /\ Readable) =>
        /\ probe.result.has_embedded_text <=> (MeaningfulLength(FirstPages(5)) > 50)
        /\ probe.result.page_count = Len(probe.doc.pages)

C17_Witness ==
    /\ Analyzed /\ Readable
    /\ Len(probe.doc.pages) > 5
    /\ MeaningfulLength(probe.doc.pages) > 50
    /\ ~probe.result.has_embedded_text

\* the recommendation the decision table gives for (has_text, coverage)
TableRecommendation(has_text, coverage) ==
    IF ~has_text THEN "PDF escaneado detectado. Se requiere OCR para hacerlo buscable."
    ELSE IF coverage.num > 80 * coverage.den
    THEN "El PDF ya tiene texto embebido. No necesita OCR."
    ELSE IF coverage.num >= 50 * coverage.den
    THEN "El PDF tiene texto parcial. Considera OCR para completar."
    ELSE "El PDF tiene poco texto. Se recomienda OCR."

\* C18: the recommendation follows the decision table: without text 'OCR
\* required'; with text 'no OCR needed' for a coverage above 80, 'partial'
\* for a coverage from 50 to 80 (both included), 'OCR recommended' below 50.
C18_RecommendationTable ==
    (Analyzed /\ probe.result.success) =>
        probe.result.recommendation =
            TableRecommendation(probe.result.has_embedded_text, probe.result.text_coverage)

\* the pages analyze_pages samples, and those of them with more than 20
\* characters of text
Sampled == IF Readable THEN FirstPages(10) ELSE << >>
SampledWithText == {k \in 1..Len(Sampled) : text_length(Sampled[k]) > 20}

\* C19: text_coverage is 100 * (sampled pages with a text length above 20) /
\* (sampled pages) over at most the first 10 pages; it lies in [0, 100], it
\* is 0 when no page was sampled, and page_count is not negative.
C19_TextCoverage ==
    (Analyzed /\ probe.result.success) =>
        LET coverage == probe.result.text_coverage IN
        /\ coverage.den > 0
        /\ 0 <= coverage.num /\ coverage.num <= 100 * coverage.den
        /\ Len(Sampled) = 0 => coverage.num = 0
        /\ Len(Sampled) > 0 =>
               coverage.num * Len(Sampled) = 100 * Cardinality(SampledWithText) * coverage.den
        /\ probe.result.page_count >= 0

C19_Witness ==
    /\ Analyzed /\ probe.result.success
    /\ Len(probe.doc.pages) = 12
    /\ probe.result.text_coverage = Percent(600, 10)

-----------------------------------------------------------------------------
(* Properties of the page-wise fallback *)

StrictlyIncreasing(s) == \A k \in 1..(Len(s) - 1) : s[k] < s[k + 1]

\* the pages of the output document of the fallback
OutputPages == files[FallbackOutput].pages

\* the output of the fallback holds exactly the pages that were recognized,
\* in page order
OutputIsRecognizedPages ==
    (fallback.pc = "done" /\ fallback.ok) =>
        /\ Exists(files, FallbackOutput)
        /\ Reported(OutputPages) = fallback.scenario.okPages
        /\ StrictlyIncreasing(OutputPages)
        /\ Len(OutputPages) <= Len(probe.doc.pages)
        /\ \A k \in 1..Len(OutputPages) : OutputPages[k] \in 1..Len(probe.doc.pages)

\* C33: the output of the secondary strategy consists of exactly the pages
\* whose recognition succeeded, in the original page order (no more pages
\* than the input has); a page whose recognition fails is dropped without
\* failing the strategy; and the strategy reports failure exactly when the
\* document could not be opened, rasterizing a page raised, no page was
\* recognized or combining the pages failed.
C33_FallbackKeepsRecognizedPages ==
    /\ OutputIsRecognizedPages
    /\ fallback.pc = "done" =>
        (~fallback.ok <=>
            \/ ~probe.doc.valid
            \/ fallback.scenario.fail = "raster"
            \/ fallback.scenario.okPages = {}
            \/ fallback.scenario.fail = "combine")

\* of three pages the second was not recognized: the fallback succeeded and
\* its output holds pages 1 and 3
C33_Witness ==
    /\ fallback.pc = "done" /\ fallback.ok
    /\ Len(probe.doc.pages) = 3
    /\ fallback.scenario.okPages = {1, 3}
    /\ OutputPages = <<1, 3>>

\* C33 as stated: the strategy reports failure exactly when no page was
\* recognized or combining the pages failed.
C33_FailsOnlyWithoutPages ==
    /\ OutputIsRecognizedPages
    /\ fallback.pc = "done" =>
        (~fallback.ok <=>
            \/ fallback.scenario.okPages = {}
            \/ fallback.scenario.fail = "combine")

-----------------------------------------------------------------------------
(* Properties of the overlapping runs *)

\* the files of the two runs that have passed the counting step
Counted == runs.run[1].counted + runs.run[2].counted

BothDone == runs.run[1].pc = "done" /\ runs.run[2].pc = "done"

\* C31: the statistics are not safe for two runs that overlap on one
\* processor: an increment can be lost and the timestamps are overwritten.
\* The counters never exceed the number of files that passed the counting
\* step, they are exact as long as the two runs have not overlapped, and
\* start_time is that of the run that started last; with overlapping runs a
\* state is reachable in which files_processed + errors is less than the
\* number of files that passed the counting step.
C31_OverlapLosesIncrements ==
    runs.run # << >> =>
        /\ stats.files_processed + stats.errors <= Counted
        /\ ~runs.overlapped => stats.files_processed + stats.errors = Counted
        /\ \A t \in 1..2 :
              runs.run[t].started_at # NoValue => stats.start_time >= runs.run[t].started_at

\* both runs have ended, each counted its one file, one of the two
\* increments was lost, and start_time is no longer the first run's
C31_Witness ==
    /\ BothDone /\ runs.overlapped
    /\ Counted = 2
    /\ stats.files_processed + stats.errors = 1
    /\ \E t \in 1..2 : runs.run[t].started_at < stats.start_time

====
